---- MODULE Spec2Model ----
(***************************************************************************)
(* Verification model of the pipeline execution core of motiva-compose-cli *)
(*   - Semaphore                    (lib/semaphore.ts)                     *)
(*   - ParallelPipelineOrchestrator (lib/parallel-pipeline-orchestrator.ts)*)
(*   - PipelineManager.validateDependencies / executePipeline              *)
(*                                  (lib/pipeline-manager.ts)              *)
(***************************************************************************)
EXTENDS Integers, Sequences, FiniteSets, TLC

(***************************************************************************)
(* Bounds of the model                                                     *)
(***************************************************************************)
\* largest maxConcurrency of a parallel group definition
MaxConc == 2
\* largest retryCount of a parallel group
MaxRetry == 1
\* longest dependency list given to resolveInput on its own
MaxDeps == 2

\* the largest maxAttempts of a withRetry / withRetryForErrorTypes call
MaxAttempts == 3
\* the most addUsage calls made on a DualBudgetManager
MaxSettles == 2
\* the most times the clock is advanced
MaxTicks == 1
MaxRuns == 2
\* the most subscribers one published event reaches
MaxFan == 3
\* the most agent runs one DAGScheduler.execute schedules
MaxJobs == 4

(***************************************************************************)
(* Values that flow through a run.  Every value is a record with a tag so  *)
(* that any two values can be compared.                                    *)
(***************************************************************************)
Undefined == [tag |-> "undefined", v |-> ""]
Null == [tag |-> "null", v |-> ""]
UserInput == [tag |-> "userInput", v |-> "prompt"]
Lit(x) == [tag |-> "literal", v |-> x]
\* the value agent.run() of the agent called n resolves with
Out(n) == [tag |-> "output", v |-> n]

\* literal values of AgentConfig.input (z.any()): JavaScript's falsy literals
\* 0, false, '' and one truthy literal
FalsyLits == {"0", "false", ""}
LitValues == FalsyLits \cup {"text"}

\* JavaScript truthiness of a value, as used by the || operator
Truthy(val) ==
  CASE val.tag = "undefined" -> FALSE
    [] val.tag = "null" -> FALSE
    [] val.tag = "literal" -> val.v \notin FalsyLits
    [] OTHER -> TRUE

\* a || b
OrElse(a, b) == IF Truthy(a) THEN a ELSE b

\* record lookup obj[key]: undefined for a key that was never written
Lookup(obj, key) == IF key \in DOMAIN obj THEN obj[key] ELSE Undefined

\* obj[key] = val
Store(obj, key, val) == [k \in DOMAIN obj \cup {key} |-> IF k = key THEN val ELSE obj[k]]

EmptyRecord == [k \in {} |-> Undefined]

Range(s) == {s[i] : i \in DOMAIN s}

(***************************************************************************)
(* Semaphore                                                               *)
(***************************************************************************)
\* new Semaphore(permits)
NewSemaphore(permits) == [permits |-> permits, waitQueue |-> <<>>]

\* acquire() called by member who: the new semaphore and whether the
\* returned promise is resolved at once
AcquireNoDecrement(sem, who) ==
  IF sem.permits > 0
    THEN [sem |-> sem, granted |-> TRUE]
    ELSE [sem |-> [sem EXCEPT !.waitQueue = Append(sem.waitQueue, who)], granted |-> FALSE]

Acquire(sem, who) ==
  IF sem.permits > 0
    THEN [sem |-> [sem EXCEPT !.permits = sem.permits - 1], granted |-> TRUE]
    ELSE [sem |-> [sem EXCEPT !.waitQueue = Append(sem.waitQueue, who)], granted |-> FALSE]

\* release(): the new semaphore and the waiters whose acquire() it resolves
ReleaseLast(sem) ==
  IF Len(sem.waitQueue) > 0
    THEN [sem |-> [sem EXCEPT !.waitQueue = SubSeq(sem.waitQueue, 1, Len(sem.waitQueue) - 1)],
          resumed |-> {sem.waitQueue[Len(sem.waitQueue)]}]
    ELSE [sem |-> [sem EXCEPT !.permits = sem.permits + 1], resumed |-> {}]

Release(sem) ==
  IF Len(sem.waitQueue) > 0
    THEN [sem |-> [sem EXCEPT !.waitQueue = Tail(sem.waitQueue)],
          resumed |-> {Head(sem.waitQueue)}]
    ELSE [sem |-> [sem EXCEPT !.permits = sem.permits + 1], resumed |-> {}]

(***************************************************************************)
(* Pipeline configuration (schemas/pipeline.ts)                            *)
(***************************************************************************)
\* AgentConfig: dependencies is optional (depsDefined = FALSE when the key is
\* absent); parallelGroup is optional ("" when absent); input is optional
\* (Undefined when absent)
AgentConfig(name, depsDefined, dependencies, parallel, parallelGroup, input) ==
  [name |-> name, depsDefined |-> depsDefined, dependencies |-> dependencies,
   parallel |-> parallel, parallelGroup |-> parallelGroup, input |-> input]

\* ParallelGroup: name, maxConcurrency, retryCount
ParallelGroup(name, maxConcurrency, retryCount) ==
  [name |-> name, maxConcurrency |-> maxConcurrency, retryCount |-> retryCount]

(***************************************************************************)
(* ParallelPipelineOrchestrator: the pure parts of execute                 *)
(***************************************************************************)
\* the filter predicate of the ready set
IsReadyIgnoresDeps(agent, completed) == agent.name \notin completed

IsReadySomeDep(agent, completed) ==
  IF agent.name \in completed THEN FALSE
  ELSE IF ~agent.depsDefined \/ Len(agent.dependencies) = 0 THEN TRUE
  ELSE \E i \in DOMAIN agent.dependencies : agent.dependencies[i] \in completed

IsReady(agent, completed) ==
  IF agent.name \in completed THEN FALSE
  ELSE IF ~agent.depsDefined \/ Len(agent.dependencies) = 0 THEN TRUE
  ELSE \A i \in DOMAIN agent.dependencies : agent.dependencies[i] \in completed

ReadyAgentsUnfiltered(agents, completed) == agents

\* readyAgents = pipelineConfig.agents.filter(...)
ReadyAgents(agents, completed) == SelectSeq(agents, LAMBDA a : IsReady(a, completed))

\* while (completed.size < pipelineConfig.agents.length)
LoopCondition(agents, completed) == Cardinality(completed) < Len(agents)

\* if (readyAgents.length === 0) throw
StallNeverDetected(ready) == FALSE

StallDetected(ready) == Len(ready) = 0

ParallelAgents(ready) == SelectSeq(ready, LAMBDA a : a.parallel)
SerialAgents(ready) == SelectSeq(ready, LAMBDA a : ~a.parallel)

\* agentConfig.parallelGroup || '__default__'
GroupOf(agent) == IF agent.parallelGroup # "" THEN agent.parallelGroup ELSE "__default__"

\* Object.keys(groupMap): the group names in order of first insertion
RECURSIVE GroupKeys(_)
GroupKeys(parallelAgents) ==
  IF parallelAgents = <<>> THEN <<>>
  ELSE LET g == GroupOf(Head(parallelAgents))
       IN <<g>> \o GroupKeys(SelectSeq(Tail(parallelAgents), LAMBDA a : GroupOf(a) # g))

\* groupMap[groupName]
GroupAgents(parallelAgents, groupName) ==
  SelectSeq(parallelAgents, LAMBDA a : GroupOf(a) = groupName)

\* (pipelineConfig.parallelGroups || []).find(g => g.name === groupName)
GroupDef(parallelGroups, groupName) ==
  LET hits == SelectSeq(parallelGroups, LAMBDA g : g.name = groupName)
  IN IF hits = <<>> THEN [found |-> FALSE, def |-> ParallelGroup("", 0, 0)]
     ELSE [found |-> TRUE, def |-> Head(hits)]

\* groupDef?.maxConcurrency || this.maxConcurrency
GroupConcurrency(groupDef, maxConcurrency) ==
  IF groupDef.found /\ groupDef.def.maxConcurrency # 0
    THEN groupDef.def.maxConcurrency ELSE maxConcurrency

\* groupDef?.retryCount ?? 0
GroupMaxRetry(groupDef) == IF groupDef.found THEN groupDef.def.retryCount ELSE 0

\* resolveInput(agentConfig, agentResults, userInput)
ResolveInput(agentConfig, agentResults, userInput) ==
  IF ~agentConfig.depsDefined \/ Len(agentConfig.dependencies) = 0
    THEN OrElse(agentConfig.input, userInput)
    ELSE [tag |-> "list",
          v |-> [i \in 1..Len(agentConfig.dependencies) |->
                   Lookup(agentResults, agentConfig.dependencies[i])]]

\* groupAgents.map(async ...): every member calls semaphore.acquire() in turn
RECURSIVE AcquireAll(_, _)
AcquireAll(sem, members) ==
  IF members = <<>> THEN [sem |-> sem, granted |-> {}]
  ELSE LET a == Acquire(sem, Head(members).name)
           rest == AcquireAll(a.sem, Tail(members))
       IN [sem |-> rest.sem,
           granted |-> IF a.granted THEN {Head(members).name} \cup rest.granted
                       ELSE rest.granted]

(***************************************************************************)
(* PipelineManager                                                         *)
(***************************************************************************)
\* validateDependencies(agents): TRUE when it returns, FALSE when it throws
ValidateDependencies(agents) ==
  LET agentNames == {agents[i].name : i \in DOMAIN agents}
  IN \A i \in DOMAIN agents :
       agents[i].depsDefined =>
         \A j \in DOMAIN agents[i].dependencies : agents[i].dependencies[j] \in agentNames

(***************************************************************************)
(* The pipelines and orchestrators the model runs                          *)
(***************************************************************************)
\* the step names of a pipeline, in declaration order, and a name that is
\* the name of no step
StepNames == <<"A", "B", "C">>
UnknownName == "X"

\* the dependency lists a step may declare: absent, empty, one name (its
\* own, another step's or an unknown one) or two names
DependencyChoices ==
  {[depsDefined |-> FALSE, dependencies |-> <<>>],
   [depsDefined |-> TRUE, dependencies |-> <<>>],
   [depsDefined |-> TRUE, dependencies |-> <<"A", "B">>]}
  \cup {[depsDefined |-> TRUE, dependencies |-> <<n>>] : n \in Range(StepNames) \cup {UnknownName}}

\* serial, parallel without a group name, parallel in the named group G
ModeChoices ==
  {[parallel |-> FALSE, parallelGroup |-> ""],
   [parallel |-> TRUE, parallelGroup |-> ""],
   [parallel |-> TRUE, parallelGroup |-> "G"]}

\* the literal input each step carries
InputOf(name) ==
  CASE name = "A" -> Undefined
    [] name = "B" -> Lit("text")
    [] OTHER -> Lit("0")

AgentChoices(name) ==
  {AgentConfig(name, d.depsDefined, d.dependencies, m.parallel, m.parallelGroup, InputOf(name)) :
     d \in DependencyChoices, m \in ModeChoices}

AgentLists ==
  {<<a, b, c>> : a \in AgentChoices(StepNames[1]), b \in AgentChoices(StepNames[2]),
                 c \in AgentChoices(StepNames[3])}

\* parallelGroups: the definition of G when some step names it
GroupLists(agents) ==
  IF \E i \in DOMAIN agents : agents[i].parallelGroup = "G"
    THEN {<<ParallelGroup("G", c, r)>> : c \in 1..MaxConc, r \in 0..MaxRetry}
    ELSE {<<>>}

\* constructor(maxConcurrency: number = 3)
DefaultMaxConcurrency == 3

\* retry.backoffMs of the configuration: z.number().int().positive().default(1000)
DefaultBackoffMs == 1000
DefaultMaxAttempts == 3

\* ParallelGroupSchema.retryDelay: z.number().default(1000)
DefaultRetryDelay == 1000

\* alerts: { warningAt: 0.8, stopAt: 0.95 }, in hundredths
WarningAtPercent == 80
StopAtPercent == 95

\* limits.maxWallTimePerRequest: 300 seconds
MaxWallTimePerRequest == 300

\* usage.startTime is absent
NoStartTime == 0

\* Date.now() when the DualBudgetManager is constructed, in seconds, and how
\* far the clock moves at a time
SessionStartTime == 100
TickSeconds == 10 * 60

VARIABLES
  entry,            \* the entry point that was called: "execute" of
                    \* ParallelPipelineOrchestrator or "executePipeline" of PipelineManager
  pipelineConfig,   \* the pipeline: [agents, parallelGroups]
  maxConcurrency,   \* this.maxConcurrency of the orchestrator
  pc,               \* where execute's own control is
  status,           \* "running", "success" (promise fulfilled), "failed" (rejected)
  error,            \* what execute's promise rejected with
  returned,         \* what execute's promise fulfilled with
  agentResults,     \* execute's local agentResults
  completed,        \* execute's local completed
  readyAgents,      \* execute's local readyAgents
  serialAgents,     \* the serial agents of the round still to run
  parallelAgents,   \* the parallel agents of the round
  groupKeys,        \* the groups of the round still to run
  groupAgents,      \* the members of the group that was launched last
  semaphore,        \* the Semaphore of the group that was launched last
  groupConcurrency, \* its groupConcurrency
  maxRetry,         \* its maxRetry
  member,           \* per step name: where its async member function is
  attempt,          \* per step name: its attempt counter
  failedAgents,     \* the steps whose run() failed with no attempt left
  doneAtFailure,    \* the group members that had resolved when the first member rejected
  stages,           \* PipelineManager: the agents executePipeline has still to run
  currentInput,     \* PipelineManager: currentInput of executePipeline
  results,          \* PipelineManager: the results array of the PipelineResult
  runs,             \* per step name: how many times agent.run was called
  lastInput         \* per step name: the input of its latest agent.run call

\* the library functions and objects a step's implementation calls; each has a
\* specification of its own below and is idle in the others
VARIABLES
  retry,            \* the activation of one retry loop: withRetry,
                    \* withRetryForErrorTypes or the retry loop of a group member
  budgetFile,       \* DualBudgetManager: the content of the budget file
  budget,           \* DualBudgetManager: this.budget
  activeRequests,   \* DualBudgetManager: this.activeRequests
  budgetOp,         \* DualBudgetManager: the latest call and its result
  now,              \* Date.now(), in seconds
  cacheFiles,       \* CacheManager: the files of the cache directory, by key
  cleanupStarted,   \* CacheManager: this.cleanupStarted
  cacheOp,          \* CacheManager: the latest call and its result
  pipelineRun,      \* ParallelOrchestrator.executePipeline: the run in progress
  stored,           \* per (step, input): the result stored by its latest execution
  stepRun,          \* one unit of work of an executor: its agent, its calls so far
  budgetCalls,      \* DualBudgetManager: the calls in progress, each at an await
  classified,       \* a thrown value and what the two classifiers make of it
  maxSize,          \* CacheManager: this.maxSize
  parallelRun,      \* ParallelOrchestrator.executeParallel: its Semaphore and tasks
  scheduler         \* DAGScheduler.execute: running, queue and the runs

budgetVars == <<budgetFile, budget, activeRequests, budgetOp, now>>
cacheVars == <<cacheFiles, cleanupStarted, cacheOp, pipelineRun, stored>>
taskVars == <<budgetCalls, classified, maxSize, parallelRun, scheduler>>
libraryVars == <<retry, budgetVars, cacheVars, stepRun, taskVars>>

vars == <<entry, pipelineConfig, maxConcurrency, pc, status, error, returned, agentResults,
          completed, readyAgents, serialAgents, parallelAgents, groupKeys, groupAgents,
          semaphore, groupConcurrency, maxRetry, member, attempt, failedAgents, doneAtFailure,
          stages, currentInput, results, runs, lastInput, libraryVars>>

configVars == <<entry, pipelineConfig, maxConcurrency>>
managerVars == <<stages, currentInput, results>>
roundVars == <<readyAgents, serialAgents, parallelAgents, groupKeys>>
groupVars == <<groupAgents, semaphore, groupConcurrency, maxRetry, member, attempt>>
outcomeVars == <<status, error, returned>>

AllNames == Range(StepNames)
NoReturn == [has |-> FALSE, results |-> EmptyRecord]

\* the pipelines given to PipelineManager.executePipeline, which reads
\* neither parallel nor parallelGroup
ManagerAgentLists == {agents \in AgentLists : \A i \in DOMAIN agents : ~agents[i].parallel}

\* no retry loop has been entered
RetryIdle ==
  [fn |-> "none", maxAttempts |-> 0, backoffMs |-> 0, retriableTypes |-> {},
   maxRetry |-> 0, retryDelay |-> 0, attempt |-> 0, pc |-> "idle", calls |-> 0,
   delays |-> <<>>, kinds |-> <<>>, outcome |-> "none", lastError |-> Undefined,
   result |-> Undefined]

\* this.budget = null
NoBudget == [tag |-> "null"]
NoBudgetOp == [name |-> "none", arg |-> Undefined, requestId |-> "undefined",
               result |-> [tag |-> "void"], settles |-> 0, seq |-> 0]

\* no DualBudgetManager call has been made and there is no budget file
BudgetIdle ==
  /\ budgetFile = [tag |-> "absent"]
  /\ budget = NoBudget
  /\ activeRequests = {}
  /\ budgetOp = NoBudgetOp
  /\ now = SessionStartTime

NoCacheOp ==
  [name |-> "none", key |-> "", data |-> Undefined, result |-> Undefined,
   found |-> FALSE, seq |-> 0]
NoPipelineRun ==
  [agents |-> <<>>, i |-> 1, currentInput |-> Undefined, useCache |-> FALSE,
   pc |-> "idle", calls |-> 0, runNo |-> 0]

\* the cache directory is empty and no CacheManager call has been made
CacheIdle ==
  /\ cacheFiles = EmptyRecord
  /\ cleanupStarted = FALSE
  /\ cacheOp = NoCacheOp
  /\ pipelineRun = NoPipelineRun
  /\ stored = EmptyRecord

\* no unit of work has been handed to an executor
NoStepRun ==
  [executor |-> "none", backing |-> "none", maxRetry |-> 0, attempts |-> 0,
   pc |-> "idle", log |-> <<>>]
StepIdle == stepRun = NoStepRun

\* no call is in progress on the budget manager, nothing was classified, and
\* neither executeParallel nor the scheduler was started
NoClassified == [tag |-> "none"]
NoParallelRun == [tag |-> "none"]
NoScheduler == [tag |-> "none"]
TaskIdle ==
  /\ budgetCalls = <<>>
  /\ classified = NoClassified
  /\ maxSize = 0
  /\ parallelRun = NoParallelRun
  /\ scheduler = NoScheduler

LibraryIdle ==
  /\ retry = RetryIdle
  /\ BudgetIdle
  /\ CacheIdle
  /\ StepIdle
  /\ TaskIdle

\* execute's locals and the records of the model before the first step
InitLocals ==
  /\ stages = <<>>
  /\ currentInput = UserInput
  /\ results = <<>>
  /\ doneAtFailure = {}
  /\ status = "running"
  /\ error = "none"
  /\ returned = NoReturn
  /\ completed = {}
  /\ readyAgents = <<>>
  /\ serialAgents = <<>>
  /\ parallelAgents = <<>>
  /\ groupKeys = <<>>
  /\ groupAgents = <<>>
  /\ semaphore = NewSemaphore(0)
  /\ groupConcurrency = 0
  /\ maxRetry = 0
  /\ member = [n \in AllNames |-> "idle"]
  /\ attempt = [n \in AllNames |-> 0]
  /\ failedAgents = {}
  /\ runs = [n \in AllNames |-> 0]
  /\ lastInput = [n \in AllNames |-> Undefined]

\* the state of a run before its first step
InitRun ==
  /\ maxConcurrency = DefaultMaxConcurrency
  /\ InitLocals

Init ==
  /\ \/ /\ entry = "execute"
        /\ \E agents \in AgentLists : \E groups \in GroupLists(agents) :
             pipelineConfig = [agents |-> agents, parallelGroups |-> groups]
        /\ pc = "loop"
     \/ /\ entry = "executePipeline"
        /\ \E agents \in ManagerAgentLists :
             pipelineConfig = [agents |-> agents, parallelGroups |-> <<>>]
        /\ pc = "validate"
  /\ agentResults = EmptyRecord
  /\ InitRun
  /\ LibraryIdle

\* agent.run(input) is called on the agent of step n
Run(n, input) ==
  /\ runs' = [runs EXCEPT ![n] = runs[n] + 1]
  /\ lastInput' = [lastInput EXCEPT ![n] = input]

\* execute's promise rejects with err
Reject(err) ==
  /\ status' = "failed"
  /\ error' = err
  /\ pc' = "done"
  /\ UNCHANGED returned

\* top of the while loop: the loop condition, the ready set, the stall check
\* and the split into serial and parallel agents (lines 33-47); after the
\* loop, return agentResults (line 125)
Resolve ==
  /\ pc = "loop"
  /\ IF LoopCondition(pipelineConfig.agents, completed)
       THEN LET ready == ReadyAgents(pipelineConfig.agents, completed)
            IN /\ readyAgents' = ready
               /\ IF StallDetected(ready)
                    THEN /\ Reject("graph-stalled")
                         /\ UNCHANGED <<serialAgents, parallelAgents>>
                    ELSE /\ parallelAgents' = ParallelAgents(ready)
                         /\ serialAgents' = SerialAgents(ready)
                         /\ pc' = "serial"
                         /\ UNCHANGED outcomeVars
       ELSE /\ status' = "success"
            /\ returned' = [has |-> TRUE, results |-> agentResults]
            /\ pc' = "done"
            /\ UNCHANGED <<error, readyAgents, serialAgents, parallelAgents>>
  /\ UNCHANGED <<configVars, libraryVars, agentResults, completed, groupKeys, groupVars, failedAgents, doneAtFailure, managerVars, runs, lastInput>>

\* the next serial agent: agentFactory, resolveInput, agent.run(input) (lines 50-57)
SerialStart ==
  /\ pc = "serial"
  /\ serialAgents # <<>>
  /\ LET agentConfig == Head(serialAgents)
     IN Run(agentConfig.name, ResolveInput(agentConfig, agentResults, UserInput))
  /\ pc' = "serialRun"
  /\ UNCHANGED <<configVars, libraryVars, outcomeVars, agentResults, completed, roundVars, groupVars, failedAgents, doneAtFailure, managerVars>>

\* agent.run resolved: record the result (lines 57-59)
SerialSucceed ==
  /\ pc = "serialRun"
  /\ LET agentConfig == Head(serialAgents)
     IN /\ agentResults' = Store(agentResults, agentConfig.name, Out(agentConfig.name))
        /\ completed' = completed \cup {agentConfig.name}
  /\ serialAgents' = Tail(serialAgents)
  /\ pc' = "serial"
  /\ UNCHANGED <<configVars, libraryVars, outcomeVars, readyAgents, parallelAgents, groupKeys, groupVars,
                 failedAgents, doneAtFailure, managerVars, runs, lastInput>>

SerialFailGoesOn ==
  /\ pc = "serialRun"
  /\ failedAgents' = failedAgents \cup {Head(serialAgents).name}
  /\ serialAgents' = Tail(serialAgents)
  /\ pc' = "serial"
  /\ UNCHANGED <<configVars, libraryVars, outcomeVars, agentResults, completed, readyAgents,
                 parallelAgents, groupKeys, groupVars, doneAtFailure, managerVars, runs, lastInput>>

\* agent.run rejected: the error leaves execute (line 57)
SerialFail ==
  /\ pc = "serialRun"
  /\ failedAgents' = failedAgents \cup {Head(serialAgents).name}
  /\ Reject("step-failed")
  /\ UNCHANGED <<configVars, libraryVars, agentResults, completed, roundVars, groupVars, doneAtFailure,
                 managerVars, runs, lastInput>>

BuildGroupsEarly ==
  /\ pc = "serial"
  /\ groupKeys' = GroupKeys(parallelAgents)
  /\ pc' = "groups"
  /\ UNCHANGED <<configVars, libraryVars, outcomeVars, agentResults, completed, readyAgents, serialAgents,
                 parallelAgents, groupVars, failedAgents, doneAtFailure, managerVars, runs, lastInput>>

\* after the serial loop: build groupMap (lines 63-68)
BuildGroups ==
  /\ pc = "serial"
  /\ serialAgents = <<>>
  /\ groupKeys' = GroupKeys(parallelAgents)
  /\ pc' = "groups"
  /\ UNCHANGED <<configVars, libraryVars, outcomeVars, agentResults, completed, readyAgents, serialAgents,
                 parallelAgents, groupVars, failedAgents, doneAtFailure, managerVars, runs, lastInput>>

AgentNamed(n) == CHOOSE a \in Range(pipelineConfig.agents) : a.name = n

\* the members in names, whose acquire() has resolved, go on to their first
\* attempt: the while condition (attempt = 0 <= maxRetry, as retryCount >= 0),
\* agentFactory, resolveInput and agent.run(input) (lines 82-93); they do so
\* before any run settles or any timer fires
StartAttempts(names, recorded) ==
  /\ runs' = [n \in AllNames |-> IF n \in names THEN runs[n] + 1 ELSE runs[n]]
  /\ lastInput' = [n \in AllNames |->
                     IF n \in names THEN ResolveInput(AgentNamed(n), recorded, UserInput)
                     ELSE lastInput[n]]

\* the next group: its definition, its Semaphore, the members' calls of
\* semaphore.acquire() and the first attempts of those it admits (lines 69-93)
LaunchGroup ==
  /\ pc = "groups"
  /\ groupKeys # <<>>
  /\ LET groupName == Head(groupKeys)
         members == GroupAgents(parallelAgents, groupName)
         groupDef == GroupDef(pipelineConfig.parallelGroups, groupName)
         concurrency == GroupConcurrency(groupDef, maxConcurrency)
         acq == AcquireAll(NewSemaphore(concurrency), members)
         names == {members[i].name : i \in DOMAIN members}
     IN /\ groupAgents' = members
        /\ groupConcurrency' = concurrency
        /\ maxRetry' = GroupMaxRetry(groupDef)
        /\ semaphore' = acq.sem
        /\ member' = [n \in AllNames |->
                        IF n \in acq.granted THEN "running"
                        ELSE IF n \in names THEN "waiting" ELSE member[n]]
        /\ attempt' = [n \in AllNames |-> IF n \in names THEN 0 ELSE attempt[n]]
        /\ StartAttempts(acq.granted, agentResults)
  /\ pc' = "awaitGroup"
  /\ UNCHANGED <<configVars, libraryVars, outcomeVars, agentResults, completed, roundVars, failedAgents,
                 doneAtFailure, managerVars>>

\* every group of the round has run: next round (line 120)
GroupsDone ==
  /\ pc = "groups"
  /\ groupKeys = <<>>
  /\ pc' = "loop"
  /\ UNCHANGED <<configVars, libraryVars, outcomeVars, agentResults, completed, roundVars, groupVars,
                 failedAgents, doneAtFailure, managerVars, runs, lastInput>>

GroupNames == {groupAgents[i].name : i \in DOMAIN groupAgents}

\* the timer of retryDelay fired: the next attempt of the while loop (lines 86-93, 107)
MemberRetry(n) ==
  /\ member[n] = "delay"
  /\ attempt[n] <= maxRetry
  /\ StartAttempts({n}, agentResults)
  /\ member' = [member EXCEPT ![n] = "running"]
  /\ UNCHANGED <<configVars, libraryVars, pc, outcomeVars, agentResults, completed, roundVars, groupAgents,
                 semaphore, groupConcurrency, maxRetry, attempt, failedAgents, doneAtFailure,
                 managerVars>>

\* agent.run resolved: record the result, return, release; the waiter that
\* release() resumes goes on to its first attempt (lines 93-99, 116-118)
MemberSucceed(n) ==
  /\ member[n] = "running"
  /\ agentResults' = Store(agentResults, n, Out(n))
  /\ completed' = completed \cup {n}
  /\ LET rel == Release(semaphore)
     IN /\ semaphore' = rel.sem
        /\ member' = [m \in AllNames |->
                        IF m = n THEN "done"
                        ELSE IF m \in rel.resumed THEN "running" ELSE member[m]]
        /\ StartAttempts(rel.resumed, agentResults')
  /\ UNCHANGED <<configVars, libraryVars, pc, outcomeVars, roundVars, groupAgents, groupConcurrency,
                 maxRetry, attempt, failedAgents, doneAtFailure, managerVars>>

\* agent.run rejected: count the attempt, then wait retryDelay, or rethrow
\* and release, which lets the resumed waiter go on to its first attempt
\* (lines 100-118)
MemberFail(n) ==
  /\ member[n] = "running"
  /\ attempt' = [attempt EXCEPT ![n] = attempt[n] + 1]
  /\ IF attempt[n] + 1 <= maxRetry
       THEN /\ member' = [member EXCEPT ![n] = "delay"]
            /\ UNCHANGED <<semaphore, failedAgents, doneAtFailure, runs, lastInput>>
       ELSE LET rel == Release(semaphore)
            IN /\ semaphore' = rel.sem
               /\ member' = [m \in AllNames |->
                               IF m = n THEN "failed"
                               ELSE IF m \in rel.resumed THEN "running" ELSE member[m]]
               /\ StartAttempts(rel.resumed, agentResults)
               /\ failedAgents' = failedAgents \cup {n}
               /\ doneAtFailure' =
                    IF \E m \in GroupNames : member[m] = "failed" THEN doneAtFailure
                    ELSE {m \in GroupNames : member[m] = "done"}
  /\ UNCHANGED <<configVars, libraryVars, pc, outcomeVars, agentResults, completed, roundVars, groupAgents,
                 groupConcurrency, maxRetry, managerVars>>

AwaitGroupRejectCancels ==
  /\ pc = "awaitGroup"
  /\ \E n \in GroupNames : member[n] = "failed"
  /\ Reject("step-failed")
  /\ member' = [n \in AllNames |-> IF member[n] \in {"done", "failed"} THEN member[n] ELSE "idle"]
  /\ UNCHANGED <<configVars, libraryVars, agentResults, completed, roundVars, groupAgents, semaphore,
                 groupConcurrency, maxRetry, attempt, failedAgents, doneAtFailure, managerVars,
                 runs, lastInput>>

\* await Promise.all(...) rejects as soon as one member has rejected (line 79)
AwaitGroupReject ==
  /\ pc = "awaitGroup"
  /\ \E n \in GroupNames : member[n] = "failed"
  /\ Reject("step-failed")
  /\ UNCHANGED <<configVars, libraryVars, agentResults, completed, roundVars, groupVars, failedAgents, doneAtFailure, managerVars, runs, lastInput>>

AwaitGroupResolveOnFirst ==
  /\ pc = "awaitGroup"
  /\ \E n \in GroupNames : member[n] = "done"
  /\ groupKeys' = Tail(groupKeys)
  /\ pc' = "groups"
  /\ UNCHANGED <<configVars, libraryVars, outcomeVars, agentResults, completed, readyAgents, serialAgents,
                 parallelAgents, groupVars, failedAgents, doneAtFailure, managerVars, runs, lastInput>>

\* await Promise.all(...) resolves when every member has resolved (line 79)
AwaitGroupResolve ==
  /\ pc = "awaitGroup"
  /\ \A n \in GroupNames : member[n] = "done"
  /\ groupKeys' = Tail(groupKeys)
  /\ pc' = "groups"
  /\ UNCHANGED <<configVars, libraryVars, outcomeVars, agentResults, completed, readyAgents, serialAgents,
                 parallelAgents, groupVars, failedAgents, doneAtFailure, managerVars, runs, lastInput>>

(***************************************************************************)
(* PipelineManager.executePipeline, with the sequential                    *)
(* ParallelOrchestrator.executePipeline it calls                           *)
(***************************************************************************)
orchestratorVars == <<agentResults, completed, roundVars, groupVars, doneAtFailure>>

\* this.validateDependencies(config.agents), then config.agents.map(createAgent)
\* (pipeline-manager.ts lines 109-114)
ManagerValidate ==
  /\ pc = "validate"
  /\ IF ValidateDependencies(pipelineConfig.agents)
       THEN /\ stages' = pipelineConfig.agents
            /\ pc' = "stage"
            /\ UNCHANGED <<outcomeVars>>
       ELSE /\ Reject("dependency-not-found")
            /\ UNCHANGED stages
  /\ UNCHANGED <<configVars, libraryVars, orchestratorVars, failedAgents, currentInput, results, runs, lastInput>>

\* the next stage finds its result in the cache: agent.run is not called
\* (lines 409-416, 440); what the cache holds is not modelled, a hit is a choice
StageCacheHit ==
  /\ pc = "stage"
  /\ stages # <<>>
  /\ currentInput' = Out(Head(stages).name)
  /\ stages' = Tail(stages)
  /\ UNCHANGED <<configVars, libraryVars, pc, outcomeVars, orchestratorVars, failedAgents, results, runs, lastInput>>

\* the next stage calls agent.run(currentInput) (lines 419-436)
StageStart ==
  /\ pc = "stage"
  /\ stages # <<>>
  /\ Run(Head(stages).name, currentInput)
  /\ pc' = "stageRun"
  /\ UNCHANGED <<configVars, libraryVars, outcomeVars, orchestratorVars, failedAgents, managerVars>>

\* agent.run resolved before the timeout (line 440)
StageSucceed ==
  /\ pc = "stageRun"
  /\ currentInput' = Out(Head(stages).name)
  /\ stages' = Tail(stages)
  /\ pc' = "stage"
  /\ UNCHANGED <<configVars, libraryVars, outcomeVars, orchestratorVars, failedAgents, results, runs, lastInput>>

\* one element of results (lines 136-149); "" for an absent error
StepRecord(agentName, stepStatus, errorMessage) ==
  [agentName |-> agentName, status |-> stepStatus, error |-> errorMessage]

\* agent.run rejected or the timeout won the race: executePipeline catches the
\* error, pushes its one record and returns a result whose status is 'failed'
\* (lines 142-150)
StageFail ==
  /\ pc = "stageRun"
  /\ failedAgents' = failedAgents \cup {Head(stages).name}
  /\ results' = Append(results, StepRecord("pipeline", "failed", "step-failed"))
  /\ Reject("step-failed")
  /\ UNCHANGED <<configVars, libraryVars, orchestratorVars, stages, currentInput, runs, lastInput>>

\* every stage has run: the result's status is 'success' (lines 135-140)
ManagerReturn ==
  /\ pc = "stage"
  /\ stages = <<>>
  /\ status' = "success"
  /\ returned' = [has |-> TRUE, results |-> EmptyRecord]
  /\ results' = Append(results, StepRecord("pipeline", "success", ""))
  /\ pc' = "done"
  /\ UNCHANGED <<configVars, libraryVars, error, orchestratorVars, failedAgents, stages, currentInput, runs, lastInput>>

Next ==
  \/ Resolve
  \/ SerialStart
  \/ SerialSucceed
  \/ SerialFail
  \/ BuildGroups
  \/ LaunchGroup
  \/ GroupsDone
  \/ \E n \in AllNames : MemberRetry(n)
  \/ \E n \in AllNames : MemberSucceed(n)
  \/ \E n \in AllNames : MemberFail(n)
  \/ AwaitGroupReject
  \/ AwaitGroupResolve
  \/ ManagerValidate
  \/ StageCacheHit
  \/ StageStart
  \/ StageSucceed
  \/ StageFail
  \/ ManagerReturn

Spec == Init /\ [][Next]_vars

(***************************************************************************)
(* resolveInput on its own: one agent configuration, any literal input,    *)
(* any dependency list of at most MaxDeps names, any results so far        *)
(***************************************************************************)
RECURSIVE SeqsUpTo(_, _)
SeqsUpTo(S, k) ==
  IF k = 0 THEN {<<>>}
  ELSE LET shorter == SeqsUpTo(S, k - 1)
       IN shorter \cup {Append(q, x) : q \in {r \in shorter : Len(r) = k - 1}, x \in S}

ResolveAgentChoices ==
  {AgentConfig("A", FALSE, <<>>, FALSE, "", i) : i \in {Undefined} \cup {Lit(x) : x \in LitValues}}
  \cup {AgentConfig("A", TRUE, d, FALSE, "", i) :
          d \in SeqsUpTo(AllNames \cup {UnknownName}, MaxDeps),
          i \in {Undefined} \cup {Lit(x) : x \in LitValues}}

ResultChoices == {[n \in S |-> Out(n)] : S \in SUBSET AllNames}

InitResolve ==
  /\ entry = "resolveInput"
  /\ \E a \in ResolveAgentChoices : pipelineConfig = [agents |-> <<a>>, parallelGroups |-> <<>>]
  /\ agentResults \in ResultChoices
  /\ pc = "call"
  /\ InitRun
  /\ LibraryIdle

\* this.resolveInput(agentConfig, agentResults, userInput): lastInput keeps
\* what it returned
CallResolveInput ==
  /\ pc = "call"
  /\ LET agentConfig == pipelineConfig.agents[1]
     IN lastInput' = [lastInput EXCEPT ![agentConfig.name] =
                        ResolveInput(agentConfig, agentResults, UserInput)]
  /\ pc' = "done"
  /\ UNCHANGED <<configVars, libraryVars, outcomeVars, orchestratorVars, failedAgents, managerVars, runs>>

NextResolve == CallResolveInput

SpecResolve == InitResolve /\ [][NextResolve]_vars

(***************************************************************************)
(* The retry loops: withRetry and withRetryForErrorTypes (retry.ts), and   *)
(* the retry loop of a parallel group member (execute, lines 82-115), one  *)
(* activation at a time, over an operation that resolves or rejects as it  *)
(* likes                                                                   *)
(***************************************************************************)

\* no pipeline is running: the orchestrators' variables keep their initial values
OrchestratorIdle ==
  /\ pipelineConfig = [agents |-> <<>>, parallelGroups |-> <<>>]
  /\ agentResults = EmptyRecord
  /\ pc = "done"
  /\ InitRun

\* what classifyError reads of a thrown value: instanceof ZodError, status,
\* error.type, code, name and fatal (0 and "" stand for an absent field)
ThrownError(zod, httpStatus, apiType, code, name, fatal) ==
  [tag |-> "error", zod |-> zod, status |-> httpStatus, apiType |-> apiType,
   code |-> code, name |-> name, fatal |-> fatal]

ErrorChoices ==
  { ThrownError(TRUE, 0, "", "", "ZodError", FALSE),
    ThrownError(FALSE, 429, "rate_limit_exceeded", "", "Error", FALSE),
    ThrownError(FALSE, 408, "timeout", "", "Error", FALSE),
    ThrownError(FALSE, 500, "server_error", "", "Error", FALSE),
    ThrownError(FALSE, 400, "invalid_request_error", "", "Error", FALSE),
    ThrownError(FALSE, 0, "", "ECONNRESET", "Error", FALSE),
    ThrownError(FALSE, 0, "", "ENOENT", "Error", FALSE),
    ThrownError(FALSE, 0, "", "UND_ERR_SOCKET", "Error", FALSE),
    ThrownError(FALSE, 0, "", "", "TimeoutError", FALSE),
    ThrownError(FALSE, 0, "", "", "Error", TRUE),
    ThrownError(FALSE, 0, "", "", "Error", FALSE) }

NetworkCodes == {"ENOTFOUND", "ECONNRESET", "ECONNREFUSED"}

\* code.startsWith('E'), over the codes the model throws
StartsWithE(code) == code \in NetworkCodes \cup {"ENOENT", "EACCES", "ETIMEDOUT"}

MotivaError(type, retriable) == [type |-> type, retriable |-> retriable]

\* classifyError(error)
ClassifyError(err) ==
  IF err.zod THEN MotivaError("validation", FALSE)
  ELSE IF err.status # 0 /\ err.apiType # ""
    THEN IF err.apiType = "rate_limit_exceeded" \/ err.status = 429
           THEN MotivaError("rate_limit", TRUE)
         ELSE IF err.status = 408 \/ err.apiType = "timeout"
           THEN MotivaError("timeout", TRUE)
         ELSE IF err.status >= 500
           THEN MotivaError("openai_api", TRUE)
         ELSE MotivaError("openai_api", FALSE)
  ELSE IF err.code \in NetworkCodes THEN MotivaError("network", TRUE)
  ELSE IF err.code # "" /\ StartsWithE(err.code) THEN MotivaError("filesystem", FALSE)
  ELSE IF err.name = "TimeoutError" THEN MotivaError("timeout", TRUE)
  ELSE IF err.fatal THEN MotivaError("fatal", FALSE)
  ELSE MotivaError("unknown", FALSE)

\* Math.pow(2, n) for a whole n >= 0
RECURSIVE Pow2(_)
Pow2(n) == IF n = 0 THEN 1 ELSE 2 * Pow2(n - 1)

DelayMsNextPower(backoffMs, attemptNo) == backoffMs * Pow2(attemptNo)

\* const delayMs = backoffMs * Math.pow(2, attempt - 1)
DelayMs(backoffMs, attemptNo) == backoffMs * Pow2(attemptNo - 1)

\* what a catch block decides: rethrow, or sleep delayMs and go round again
Rethrow == [throw |-> TRUE, delayMs |-> 0]
SleepFor(delayMs) == [throw |-> FALSE, delayMs |-> delayMs]

WithRetryCatchIgnoresClass(attemptNo, maxAttempts, backoffMs, err) ==
  IF attemptNo = maxAttempts THEN Rethrow ELSE SleepFor(DelayMs(backoffMs, attemptNo))

\* the catch block of withRetry
WithRetryCatch(attemptNo, maxAttempts, backoffMs, err) ==
  IF ~ClassifyError(err).retriable THEN Rethrow
  ELSE IF attemptNo = maxAttempts THEN Rethrow
  ELSE SleepFor(DelayMs(backoffMs, attemptNo))

WithRetryForErrorTypesCatchByClass(attemptNo, maxAttempts, backoffMs, retriableTypes, err) ==
  WithRetryCatch(attemptNo, maxAttempts, backoffMs, err)

\* the catch block of withRetryForErrorTypes
WithRetryForErrorTypesCatch(attemptNo, maxAttempts, backoffMs, retriableTypes, err) ==
  IF ClassifyError(err).type \notin retriableTypes THEN Rethrow
  ELSE IF attemptNo = maxAttempts THEN Rethrow
  ELSE SleepFor(DelayMs(backoffMs, attemptNo))

GroupMemberCatchBacksOff(attemptNo, groupMaxRetry, retryDelay) ==
  IF attemptNo <= groupMaxRetry THEN SleepFor(DelayMs(retryDelay, attemptNo)) ELSE Rethrow

\* the catch block of a group member, attemptNo being attempt after attempt++
GroupMemberCatch(attemptNo, groupMaxRetry, retryDelay) ==
  IF attemptNo <= groupMaxRetry THEN SleepFor(retryDelay) ELSE Rethrow

\* options.maxAttempts ?? retryConfig.maxAttempts, options.backoffMs ?? retryConfig.backoffMs
BackoffChoices == {100, DefaultBackoffMs}

\* the allow-lists given to withRetryForErrorTypes: the one of openai.ts
\* (lines 385 and 426), the network / rate-limit / timeout classes, one class
\* only, and none
AllowListChoices ==
  { {"rate_limit", "timeout", "network", "openai_api"},
    {"network", "rate_limit", "timeout"},
    {"rate_limit"},
    {} }

OperationValues == {Out("A"), Out("B")}

RetryCall(fn, maxAttempts, backoffMs, retriableTypes, groupMaxRetry, retryDelay, firstAttempt) ==
  [RetryIdle EXCEPT !.fn = fn, !.maxAttempts = maxAttempts, !.backoffMs = backoffMs,
                    !.retriableTypes = retriableTypes, !.maxRetry = groupMaxRetry,
                    !.retryDelay = retryDelay, !.attempt = firstAttempt, !.pc = "loop"]

\* groupDef?.retryDelay ?? 1000
RetryDelayChoices == {250, DefaultRetryDelay}

RetryCalls ==
  {RetryCall("withRetry", m, b, {}, 0, 0, 1) : m \in 0..MaxAttempts, b \in BackoffChoices}
  \cup {RetryCall("withRetryForErrorTypes", m, b, t, 0, 0, 1) :
          m \in 0..MaxAttempts, b \in BackoffChoices, t \in AllowListChoices}
  \cup {RetryCall("groupMember", 0, 0, {}, r, d, 0) :
          r \in 0..(MaxRetry + 1), d \in RetryDelayChoices}

InitRetry ==
  /\ entry = "retry"
  /\ OrchestratorIdle
  /\ retry \in RetryCalls
  /\ BudgetIdle
  /\ CacheIdle
  /\ StepIdle
  /\ TaskIdle

RetryFunctions == {"withRetry", "withRetryForErrorTypes"}

\* operation() is called
Invoke(r) == [r EXCEPT !.pc = "running", !.calls = r.calls + 1, !.outcome = "pending"]

\* the head of the for loop: attempt <= maxAttempts, then operation(); after
\* the loop, throw lastError (retry.ts lines 27-29, 63)
RetryAttempt ==
  /\ retry.fn \in RetryFunctions
  /\ retry.pc = "loop"
  /\ retry' = IF retry.attempt <= retry.maxAttempts
                THEN Invoke(retry)
                ELSE [retry EXCEPT !.pc = "thrown"]
  /\ UNCHANGED <<configVars, outcomeVars, orchestratorVars, failedAgents, managerVars, taskVars, stepRun,
                 pc, runs, lastInput, budgetVars, cacheVars>>

\* the operation resolves: return await operation() (line 29); in the group
\* loop the result is stored and the member returns (lines 93-99)
OperationResolves(v) ==
  /\ retry.pc = "running"
  /\ retry' = [retry EXCEPT !.pc = "returned", !.outcome = "ok", !.result = v]
  /\ UNCHANGED <<configVars, outcomeVars, orchestratorVars, failedAgents, managerVars, taskVars, stepRun,
                 pc, runs, lastInput, budgetVars, cacheVars>>

\* the operation rejects with err: the catch block (lines 30-58, 85-113)
OperationRejects(err) ==
  /\ retry.fn \in RetryFunctions
  /\ retry.pc = "running"
  /\ LET decision ==
           IF retry.fn = "withRetry"
             THEN WithRetryCatch(retry.attempt, retry.maxAttempts, retry.backoffMs, err)
             ELSE WithRetryForErrorTypesCatch(retry.attempt, retry.maxAttempts, retry.backoffMs,
                                              retry.retriableTypes, err)
         failed == [retry EXCEPT !.outcome = "failed", !.lastError = err,
                                 !.kinds = Append(retry.kinds, ClassifyError(err).type)]
     IN retry' = IF decision.throw
                   THEN [failed EXCEPT !.pc = "thrown"]
                   ELSE [failed EXCEPT !.pc = "sleep",
                                       !.delays = Append(retry.delays, decision.delayMs)]
  /\ UNCHANGED <<configVars, outcomeVars, orchestratorVars, failedAgents, managerVars, taskVars, stepRun,
                 pc, runs, lastInput, budgetVars, cacheVars>>

\* the timer of the backoff fires: attempt++ of the for loop (lines 58, 27)
RetryWake ==
  /\ retry.fn \in RetryFunctions
  /\ retry.pc = "sleep"
  /\ retry' = [retry EXCEPT !.attempt = retry.attempt + 1, !.pc = "loop"]
  /\ UNCHANGED <<configVars, outcomeVars, orchestratorVars, failedAgents, managerVars, taskVars, stepRun,
                 pc, runs, lastInput, budgetVars, cacheVars>>

\* the head of the member's while loop: attempt <= maxRetry, then agent.run
\* (execute, lines 86-93)
GroupMemberAttempt ==
  /\ retry.fn = "groupMember"
  /\ retry.pc = "loop"
  /\ retry' = IF retry.attempt <= retry.maxRetry
                THEN Invoke(retry)
                ELSE [retry EXCEPT !.pc = "returned"]
  /\ UNCHANGED <<configVars, outcomeVars, orchestratorVars, failedAgents, managerVars, taskVars, stepRun,
                 pc, runs, lastInput, budgetVars, cacheVars>>

\* agent.run rejects with err: lastError = err, attempt++, then the fixed
\* delay or throw lastError (execute, lines 100-113)
GroupMemberRejects(err) ==
  /\ retry.fn = "groupMember"
  /\ retry.pc = "running"
  /\ LET decision == GroupMemberCatch(retry.attempt + 1, retry.maxRetry, retry.retryDelay)
         failed == [retry EXCEPT !.outcome = "failed", !.lastError = err,
                                 !.attempt = retry.attempt + 1,
                                 !.kinds = Append(retry.kinds, ClassifyError(err).type)]
     IN retry' = IF decision.throw
                   THEN [failed EXCEPT !.pc = "thrown"]
                   ELSE [failed EXCEPT !.pc = "sleep",
                                       !.delays = Append(retry.delays, decision.delayMs)]
  /\ UNCHANGED <<configVars, outcomeVars, orchestratorVars, failedAgents, managerVars, taskVars, stepRun,
                 pc, runs, lastInput, budgetVars, cacheVars>>

\* the timer of retryDelay fires (execute, line 107)
GroupMemberWake ==
  /\ retry.fn = "groupMember"
  /\ retry.pc = "sleep"
  /\ retry' = [retry EXCEPT !.pc = "loop"]
  /\ UNCHANGED <<configVars, outcomeVars, orchestratorVars, failedAgents, managerVars, taskVars, stepRun,
                 pc, runs, lastInput, budgetVars, cacheVars>>

NextRetry ==
  \/ RetryAttempt
  \/ \E v \in OperationValues : OperationResolves(v)
  \/ \E err \in ErrorChoices : OperationRejects(err)
  \/ RetryWake
  \/ GroupMemberAttempt
  \/ \E err \in ErrorChoices : GroupMemberRejects(err)
  \/ GroupMemberWake

SpecRetry == InitRetry /\ [][NextRetry]_vars

(***************************************************************************)
(* DualBudgetManager (dual-budget-manager.ts): one manager over one budget *)
(* file.  Amounts are whole numbers: tokens, cost in cents, time in        *)
(* seconds; warningAt and stopAt are in hundredths, so that                *)
(*   used / cap >= stopAt   is   100 * used >= stopAt * cap                *)
(***************************************************************************)
TierTable == [minimal |-> [monthly |-> 300, tokens |-> 1000, wallTimeSec |-> 7200]]

Alerts == [warningAt |-> WarningAtPercent, stopAt |-> StopAtPercent]

DualBudget(current, usage, maxConc) ==
  [tag |-> "budget", tiers |-> TierTable, current |-> current, usage |-> usage,
   alerts |-> Alerts,
   limits |-> [maxConcurrency |-> maxConc, maxWallTimePerRequest |-> MaxWallTimePerRequest]]

Usage(tokens, costUSD, wallTimeSec, startTime) ==
  [tokens |-> tokens, costUSD |-> costUSD, wallTimeSec |-> wallTimeSec, startTime |-> startTime]

CostEstimate(tokens, estimatedCost, estimatedWallTime) ==
  [tokens |-> tokens, estimatedCost |-> estimatedCost, estimatedWallTime |-> estimatedWallTime]

\* the estimates given to checkBudgetLimit
EstimateChoices ==
  { CostEstimate(10, 0, 30), CostEstimate(100, 0, 30),
    CostEstimate(10, 30, 30), CostEstimate(10, 0, 400) }

\* the actual amounts given to addUsage: { tokens, cost, wallTime }
ActualChoices ==
  { [tokens |-> 160, cost |-> 0, wallTime |-> 0],
    [tokens |-> 800, cost |-> 10, wallTime |-> 30],
    [tokens |-> 10, cost |-> 280, wallTime |-> 0],
    [tokens |-> 0, cost |-> 0, wallTime |-> 6000] }

\* requestId?: string
RequestIds == {"r1", "r2"}
RequestIdChoices == RequestIds \cup {"undefined"}

\* this.calculateCurrentWallTime(), in seconds
CalculateCurrentWallTime(b, clock) ==
  IF b.usage.startTime = NoStartTime
    THEN b.usage.wallTimeSec
    ELSE b.usage.wallTimeSec + (clock - b.usage.startTime)

\* a usage rate as the fraction num / den
Rate(num, den) == [num |-> num, den |-> den]

\* rate >= threshold, the threshold in hundredths
RateAtLeast(rate, percent) == 100 * rate.num >= percent * rate.den

\* tokenUsageRate, costUsageRate, wallTimeUsageRate (lines 194-203)
UsageRates(b, estimate, clock) ==
  LET currentTier == b.tiers[b.current]
  IN { Rate(b.usage.tokens + estimate.tokens, currentTier.tokens),
       Rate(b.usage.costUSD + estimate.estimatedCost, currentTier.monthly),
       Rate(CalculateCurrentWallTime(b, clock) + estimate.estimatedWallTime,
            currentTier.wallTimeSec) }

\* Math.max(tokenUsageRate, costUsageRate, wallTimeUsageRate) >= threshold
MaxUsageRateAtLeast(b, estimate, clock, percent) ==
  \E rate \in UsageRates(b, estimate, clock) : RateAtLeast(rate, percent)

BudgetCheckResult(allowed, reason, warned) ==
  [tag |-> "result", allowed |-> allowed, reason |-> reason, warned |-> warned]

\* the call threw (an unknown tier), or returned nothing
Threw == [tag |-> "threw"]
Void == [tag |-> "void"]

CheckDecisionStopsAtCap(b, active, estimate, clock) ==
  IF Cardinality(active) >= b.limits.maxConcurrency
    THEN BudgetCheckResult(FALSE, "concurrency", FALSE)
  ELSE IF estimate.estimatedWallTime > b.limits.maxWallTimePerRequest
    THEN BudgetCheckResult(FALSE, "wall-time-per-request", FALSE)
  ELSE IF MaxUsageRateAtLeast(b, estimate, clock, 100)
    THEN BudgetCheckResult(FALSE, "budget", FALSE)
  ELSE BudgetCheckResult(TRUE, "", MaxUsageRateAtLeast(b, estimate, clock, b.alerts.warningAt))

CheckDecisionSkipsConcurrency(b, active, estimate, clock) ==
  IF estimate.estimatedWallTime > b.limits.maxWallTimePerRequest
    THEN BudgetCheckResult(FALSE, "wall-time-per-request", FALSE)
  ELSE IF MaxUsageRateAtLeast(b, estimate, clock, b.alerts.stopAt)
    THEN BudgetCheckResult(FALSE, "budget", FALSE)
  ELSE BudgetCheckResult(TRUE, "", MaxUsageRateAtLeast(b, estimate, clock, b.alerts.warningAt))

\* the three denials, the warning and the result of checkBudgetLimit
\* (lines 206-247); warned: the warning lines were printed
CheckDecision(b, active, estimate, clock) ==
  IF Cardinality(active) >= b.limits.maxConcurrency
    THEN BudgetCheckResult(FALSE, "concurrency", FALSE)
  ELSE IF estimate.estimatedWallTime > b.limits.maxWallTimePerRequest
    THEN BudgetCheckResult(FALSE, "wall-time-per-request", FALSE)
  ELSE IF MaxUsageRateAtLeast(b, estimate, clock, b.alerts.stopAt)
    THEN BudgetCheckResult(FALSE, "budget", FALSE)
  ELSE BudgetCheckResult(TRUE, "", MaxUsageRateAtLeast(b, estimate, clock, b.alerts.warningAt))

\* the budget file: absent, or the JSON of a budget
NoFile == [tag |-> "absent"]

\* initializeBudget(): the ledger written at the first use (lines 128-150)
InitializeBudget(tier, maxConc) ==
  DualBudget(tier, Usage(0, 0, 0, SessionStartTime), maxConc)

\* loadBudget(): the ledger read from the file, its startTime set when absent
\* (lines 157-164)
LoadBudget(file) ==
  IF file.usage.startTime = NoStartTime
    THEN [file EXCEPT !.usage.startTime = SessionStartTime]
    ELSE file

\* ensureBudgetExists(): this.budget and the file after it; the answers are
\* those of the first-use prompt (lines 64-72)
EnsureBudgetExists(file, tierAnswer, concurrencyAnswer) ==
  IF file = NoFile
    THEN [budget |-> InitializeBudget(tierAnswer, concurrencyAnswer),
          file |-> InitializeBudget(tierAnswer, concurrencyAnswer)]
    ELSE [budget |-> LoadBudget(file), file |-> LoadBudget(file)]

CheckEffectReservesEstimate(b, active, result, estimate, requestId) ==
  [budget |-> IF result.allowed
                THEN [b EXCEPT !.usage.tokens = @ + estimate.tokens,
                               !.usage.costUSD = @ + estimate.estimatedCost]
                ELSE b,
   active |-> IF result.allowed /\ requestId # "undefined"
                THEN active \cup {requestId} ELSE active]

\* what an admission check leaves behind: if (requestId)
\* this.activeRequests.add(requestId), on the allowed path only (lines 239-242)
CheckEffect(b, active, result, estimate, requestId) ==
  [budget |-> b,
   active |-> IF result.allowed /\ requestId # "undefined"
                THEN active \cup {requestId} ELSE active]

AddUsageEffectKeepsRequest(b, active, actual, requestId) ==
  [budget |-> [b EXCEPT !.usage.tokens = @ + actual.tokens,
                        !.usage.costUSD = @ + actual.cost,
                        !.usage.wallTimeSec = @ + actual.wallTime],
   active |-> active]

\* addUsage on a loaded budget (lines 256-263)
AddUsageEffect(b, active, actual, requestId) ==
  [budget |-> [b EXCEPT !.usage.tokens = @ + actual.tokens,
                        !.usage.costUSD = @ + actual.cost,
                        !.usage.wallTimeSec = @ + actual.wallTime],
   active |-> IF requestId # "undefined" THEN active \ {requestId} ELSE active]

\* the latest call on the manager; seq flips at every call
BudgetOp(name, arg, requestId, result, settles, seq) ==
  [name |-> name, arg |-> arg, requestId |-> requestId, result |-> result,
   settles |-> settles, seq |-> seq]

InitBudget ==
  /\ entry = "budget"
  /\ OrchestratorIdle
  /\ retry = RetryIdle
  /\ budgetFile \in {NoFile}
       \cup {DualBudget(current, Usage(0, 0, 0, startTime), maxConc) :
               current \in {"minimal", "enterprise"},
               startTime \in {NoStartTime, SessionStartTime - 60},
               maxConc \in 1..MaxConc}
  /\ budget = NoBudget
  /\ activeRequests = {}
  /\ now = SessionStartTime
  /\ budgetOp = NoBudgetOp
  /\ CacheIdle
  /\ StepIdle
  /\ TaskIdle

\* checkBudgetLimit(estimate, requestId) (lines 179-248)
CheckBudgetLimit(estimate, requestId) ==
  /\ \E concurrencyAnswer \in (IF budgetFile = NoFile THEN 1..MaxConc ELSE {1}) :
       LET ensured == EnsureBudgetExists(budgetFile, "minimal", concurrencyAnswer)
           b == ensured.budget
       IN /\ budgetFile' = ensured.file
          /\ IF b.current \notin DOMAIN b.tiers
               THEN /\ budget' = b
                    /\ UNCHANGED activeRequests
                    /\ budgetOp' = BudgetOp("checkBudgetLimit", estimate, requestId, Threw,
                                            budgetOp.settles, 1 - budgetOp.seq)
               ELSE LET result == CheckDecision(b, activeRequests, estimate, now)
                        effect == CheckEffect(b, activeRequests, result, estimate, requestId)
                    IN /\ budget' = effect.budget
                       /\ activeRequests' = effect.active
                       /\ budgetOp' = BudgetOp("checkBudgetLimit", estimate, requestId, result,
                                               budgetOp.settles, 1 - budgetOp.seq)
  /\ UNCHANGED <<configVars, outcomeVars, orchestratorVars, failedAgents, managerVars, taskVars, stepRun,
                 pc, runs, lastInput, retry, now, cacheVars>>

\* addUsage(usage, requestId) (lines 253-266, saveBudget lines 170-174)
AddUsage(actual, requestId) ==
  /\ budgetOp.settles < MaxSettles
  /\ IF budget = NoBudget
       THEN UNCHANGED <<budget, budgetFile, activeRequests>>
       ELSE LET effect == AddUsageEffect(budget, activeRequests, actual, requestId)
            IN /\ budget' = effect.budget
               /\ activeRequests' = effect.active
               /\ budgetFile' = effect.budget
  /\ budgetOp' = BudgetOp("addUsage", actual, requestId, Void,
                          budgetOp.settles + 1, 1 - budgetOp.seq)
  /\ UNCHANGED <<configVars, outcomeVars, orchestratorVars, failedAgents, managerVars, taskVars, stepRun,
                 pc, runs, lastInput, retry, now, cacheVars>>

\* time passes: Date.now() grows
Tick ==
  /\ now < SessionStartTime + MaxTicks * TickSeconds
  /\ now' = now + TickSeconds
  /\ UNCHANGED <<configVars, outcomeVars, orchestratorVars, failedAgents, managerVars, taskVars, stepRun,
                 pc, runs, lastInput, retry, budgetFile, budget, activeRequests, budgetOp,
                 cacheVars>>

NextBudget ==
  \/ \E estimate \in EstimateChoices, requestId \in RequestIdChoices :
       CheckBudgetLimit(estimate, requestId)
  \/ \E actual \in ActualChoices, requestId \in RequestIdChoices :
       AddUsage(actual, requestId)
  \/ Tick

SpecBudget == InitBudget /\ [][NextBudget]_vars

(***************************************************************************)
(* CacheManager (cache-manager.ts): the cache directory as a function from *)
(* the keys that have a file to the file's content.  Time is in seconds.   *)
(***************************************************************************)
HourSeconds == 60 * 60
DaySeconds == 24 * HourSeconds

\* JSON.stringify(entry): a data of undefined is left out of the file
CacheFile(key, data, timestamp, ttl) ==
  [key |-> key, hasData |-> data # Undefined,
   data |-> IF data # Undefined THEN data ELSE Null,
   timestamp |-> timestamp, ttl |-> ttl]

\* JSON.parse(content).data
EntryData(file) == IF file.hasData THEN file.data ELSE Undefined

RemoveFile(files, key) == [k \in DOMAIN files \ {key} |-> files[k]]

\* set(key, data, ttl): the directory after it (lines 63-84)
CacheSet(files, key, data, ttl, clock) ==
  [k \in DOMAIN files \cup {key} |->
     IF k = key THEN CacheFile(key, data, clock, ttl) ELSE files[k]]

CacheGetIgnoresTtl(files, key, clock) ==
  IF key \notin DOMAIN files
    THEN [result |-> Null, found |-> FALSE, files |-> files]
    ELSE [result |-> EntryData(files[key]), found |-> TRUE, files |-> files]

\* get(key): what it returns and the directory after it (lines 89-106);
\* found: the file was there to read
CacheGet(files, key, clock) ==
  IF key \notin DOMAIN files
    THEN [result |-> Null, found |-> FALSE, files |-> files]
    ELSE IF clock - files[key].timestamp > files[key].ttl
      THEN [result |-> Null, found |-> TRUE, files |-> RemoveFile(files, key)]
      ELSE [result |-> EntryData(files[key]), found |-> TRUE, files |-> files]

\* cleanup(): the entries past their ttl are unlinked (lines 224-256)
CacheCleanup(files, clock) ==
  [k \in {j \in DOMAIN files : ~(clock - files[j].timestamp > files[j].ttl)} |-> files[k]]

CacheKeys == {"k1", "k2"}
TtlChoices == {TickSeconds \div 2, TickSeconds, DaySeconds}
PayloadChoices == {Out("A"), Lit("0"), Null, Undefined}

CacheOp(name, key, data, result, found, seq) ==
  [name |-> name, key |-> key, data |-> data, result |-> result, found |-> found,
   seq |-> seq]

InitCache ==
  /\ entry = "cache"
  /\ OrchestratorIdle
  /\ retry = RetryIdle
  /\ BudgetIdle
  /\ CacheIdle
  /\ StepIdle
  /\ TaskIdle

\* cacheManager.set(key, data, ttl), which also starts the cleanup timers
Set(key, data, ttl) ==
  /\ cacheFiles' = CacheSet(cacheFiles, key, data, ttl, now)
  /\ cleanupStarted' = TRUE
  /\ cacheOp' = CacheOp("set", key, data, Undefined, FALSE, 1 - cacheOp.seq)
  /\ UNCHANGED <<configVars, outcomeVars, orchestratorVars, failedAgents, managerVars, taskVars, stepRun,
                 pc, runs, lastInput, retry, budgetVars, pipelineRun, stored>>

\* cacheManager.get(key)
Get(key) ==
  /\ LET got == CacheGet(cacheFiles, key, now)
     IN /\ cacheFiles' = got.files
        /\ cacheOp' = CacheOp("get", key, Undefined, got.result, got.found, 1 - cacheOp.seq)
  /\ UNCHANGED <<configVars, outcomeVars, orchestratorVars, failedAgents, managerVars, taskVars, stepRun,
                 pc, runs, lastInput, retry, budgetVars, cleanupStarted, pipelineRun, stored>>

\* cacheManager.delete(key) (lines 111-118)
Delete(key) ==
  /\ cacheFiles' = RemoveFile(cacheFiles, key)
  /\ cacheOp' = CacheOp("delete", key, Undefined, Undefined, key \in DOMAIN cacheFiles, 1 - cacheOp.seq)
  /\ UNCHANGED <<configVars, outcomeVars, orchestratorVars, failedAgents, managerVars, taskVars, stepRun,
                 pc, runs, lastInput, retry, budgetVars, cleanupStarted, pipelineRun, stored>>

\* cacheManager.clear() (lines 123-133)
Clear ==
  /\ cacheFiles' = EmptyRecord
  /\ cacheOp' = CacheOp("clear", "", Undefined, Undefined, FALSE, 1 - cacheOp.seq)
  /\ UNCHANGED <<configVars, outcomeVars, orchestratorVars, failedAgents, managerVars, taskVars, stepRun,
                 pc, runs, lastInput, retry, budgetVars, cleanupStarted, pipelineRun, stored>>

\* a cleanup timer fires (lines 261-277, 224-256)
Cleanup ==
  /\ cleanupStarted
  /\ cacheFiles' = CacheCleanup(cacheFiles, now)
  /\ cacheOp' = CacheOp("cleanup", "", Undefined, Undefined, FALSE, 1 - cacheOp.seq)
  /\ UNCHANGED <<configVars, outcomeVars, orchestratorVars, failedAgents, managerVars, taskVars, stepRun,
                 pc, runs, lastInput, retry, budgetVars, cleanupStarted, pipelineRun, stored>>

\* cacheManager.getStats(): starts the cleanup timers and unlinks the expired
\* entries it meets (lines 138-219)
GetStats ==
  /\ cacheFiles' = CacheCleanup(cacheFiles, now)
  /\ cleanupStarted' = TRUE
  /\ cacheOp' = CacheOp("getStats", "", Undefined, Undefined, FALSE, 1 - cacheOp.seq)
  /\ UNCHANGED <<configVars, outcomeVars, orchestratorVars, failedAgents, managerVars, taskVars, stepRun,
                 pc, runs, lastInput, retry, budgetVars, pipelineRun, stored>>

NextCache ==
  \/ \E key \in CacheKeys, data \in PayloadChoices, ttl \in TtlChoices : Set(key, data, ttl)
  \/ \E key \in CacheKeys : Get(key)
  \/ \E key \in CacheKeys : Delete(key)
  \/ Clear
  \/ Cleanup
  \/ GetStats
  \/ Tick

SpecCache == InitCache /\ [][NextCache]_vars

(***************************************************************************)
(* ParallelOrchestrator.executePipeline with its CacheManager              *)
(* (pipeline-manager.ts lines 370-462): sequential runs over one cache     *)
(* directory.                                                              *)
(***************************************************************************)
\* an input whose JSON text is longer than 100 characters; the texts of the
\* long inputs differ only after their first 100 characters
LongInput(x) == [tag |-> "long", v |-> x]

\* JSON.stringify(val).slice(0, 100), for a val other than undefined
StringifyPrefix(val) ==
  CASE val.tag = "long" -> "long"
    [] val.tag = "output" -> "out:" \o val.v
    [] val.tag = "null" -> "null"
    [] OTHER -> val.v

\* the cacheKey of line 406
CacheKey(name, input) == name \o "_" \o StringifyPrefix(input)

PipelineAgents == {<<"A">>, <<"A", "B">>}
PipelineInputs == {Lit("text"), LongInput("X"), LongInput("Y"), Undefined}
\* what agent.run of the agent called n may resolve with
RunResults(n) == {Out(n), Lit("0"), Undefined}

PipelineRun(agents, i, input, useCache, p, calls, runNo) ==
  [agents |-> agents, i |-> i, currentInput |-> input, useCache |-> useCache,
   pc |-> p, calls |-> calls, runNo |-> runNo]

InitPipelineCache ==
  /\ entry = "pipelineCache"
  /\ OrchestratorIdle
  /\ retry = RetryIdle
  /\ BudgetIdle
  /\ CacheIdle
  /\ StepIdle
  /\ TaskIdle

\* executePipeline(agents, initialInput, { useCache }) is called; the runs
\* of the model follow one another
PipelineStart(agents, initialInput, useCache) ==
  /\ pipelineRun.pc \in {"idle", "done", "failed"}
  /\ pipelineRun.runNo < MaxRuns
  /\ pipelineRun' = PipelineRun(agents, 1, initialInput, useCache, "stage", 0,
                                pipelineRun.runNo + 1)
  /\ UNCHANGED <<configVars, outcomeVars, orchestratorVars, failedAgents, managerVars, taskVars, stepRun,
                 pc, runs, lastInput, retry, budgetVars, cacheFiles, cleanupStarted,
                 cacheOp, stored>>

\* one pass of the loop body up to the call of agent.run (lines 391-419):
\* the key is built, the cache is asked, and a truthy answer is the result
PipelineStage ==
  /\ pipelineRun.pc = "stage"
  /\ pipelineRun.i <= Len(pipelineRun.agents)
  /\ LET name == pipelineRun.agents[pipelineRun.i]
         input == pipelineRun.currentInput
         callsRun == [pipelineRun EXCEPT !.pc = "running", !.calls = @ + 1]
     IN IF input = Undefined
          THEN \* JSON.stringify(undefined).slice throws a TypeError
               /\ pipelineRun' = [pipelineRun EXCEPT !.pc = "failed"]
               /\ UNCHANGED <<cacheFiles, cacheOp>>
          ELSE IF pipelineRun.useCache
            THEN LET got == CacheGet(cacheFiles, CacheKey(name, input), now)
                 IN /\ cacheFiles' = got.files
                    /\ cacheOp' = CacheOp("get", CacheKey(name, input), Undefined,
                                          got.result, got.found, 1 - cacheOp.seq)
                    /\ pipelineRun' =
                         IF Truthy(got.result)
                           THEN [pipelineRun EXCEPT !.currentInput = got.result,
                                                    !.i = @ + 1]
                           ELSE callsRun
            ELSE /\ pipelineRun' = callsRun
                 /\ UNCHANGED <<cacheFiles, cacheOp>>
  /\ UNCHANGED <<configVars, outcomeVars, orchestratorVars, failedAgents, managerVars, taskVars, stepRun,
                 pc, runs, lastInput, retry, budgetVars, cleanupStarted, stored>>

\* agent.run resolves with v: the result is stored under the key when the
\* cache is in use, and becomes the next stage's input (lines 419-440)
PipelineStageResolves(v) ==
  /\ pipelineRun.pc = "running"
  /\ LET name == pipelineRun.agents[pipelineRun.i]
         input == pipelineRun.currentInput
     IN /\ v \in RunResults(name)
        /\ IF pipelineRun.useCache
             THEN /\ cacheFiles' = CacheSet(cacheFiles, CacheKey(name, input), v,
                                            DaySeconds, now)
                  /\ cleanupStarted' = TRUE
                  /\ cacheOp' = CacheOp("set", CacheKey(name, input), v, Undefined,
                                        FALSE, 1 - cacheOp.seq)
                  /\ stored' = Store(stored, <<name, input>>, [value |-> v, at |-> now])
             ELSE UNCHANGED <<cacheFiles, cleanupStarted, cacheOp, stored>>
  /\ pipelineRun' = [pipelineRun EXCEPT !.currentInput = v, !.i = @ + 1, !.pc = "stage"]
  /\ UNCHANGED <<configVars, outcomeVars, orchestratorVars, failedAgents, managerVars, taskVars, stepRun,
                 pc, runs, lastInput, retry, budgetVars>>

\* agent.run rejects, or the timeout wins the race: the error is rethrown
PipelineStageRejects ==
  /\ pipelineRun.pc = "running"
  /\ pipelineRun' = [pipelineRun EXCEPT !.pc = "failed"]
  /\ UNCHANGED <<configVars, outcomeVars, orchestratorVars, failedAgents, managerVars, taskVars, stepRun,
                 pc, runs, lastInput, retry, budgetVars, cacheFiles, cleanupStarted,
                 cacheOp, stored>>

\* the loop is over: return currentInput (line 457)
PipelineReturn ==
  /\ pipelineRun.pc = "stage"
  /\ pipelineRun.i > Len(pipelineRun.agents)
  /\ pipelineRun' = [pipelineRun EXCEPT !.pc = "done"]
  /\ UNCHANGED <<configVars, outcomeVars, orchestratorVars, failedAgents, managerVars, taskVars, stepRun,
                 pc, runs, lastInput, retry, budgetVars, cacheFiles, cleanupStarted,
                 cacheOp, stored>>

\* a day goes by between two steps
NextDay ==
  /\ now < SessionStartTime + MaxTicks * DaySeconds
  /\ now' = now + DaySeconds
  /\ UNCHANGED <<configVars, outcomeVars, orchestratorVars, failedAgents, managerVars, taskVars, stepRun,
                 pc, runs, lastInput, retry, budgetFile, budget, activeRequests, budgetOp,
                 cacheVars>>

NextPipelineCache ==
  \/ \E agents \in PipelineAgents, initialInput \in PipelineInputs, useCache \in BOOLEAN :
       PipelineStart(agents, initialInput, useCache)
  \/ PipelineStage
  \/ \E v \in RunResults("A") \cup RunResults("B") : PipelineStageResolves(v)
  \/ PipelineStageRejects
  \/ PipelineReturn
  \/ Cleanup
  \/ Tick
  \/ NextDay

SpecPipelineCache == InitPipelineCache /\ [][NextPipelineCache]_vars

(***************************************************************************)
(* One unit of work, from the executor down to the LLM request: a serial   *)
(* step or a group member of ParallelPipelineOrchestrator.execute, a stage *)
(* of ParallelOrchestrator.executePipeline, or a step of                   *)
(* AgentOrchestrator.execute; the agent is CriticAgent (BudgetManager) or  *)
(* the legacy ConceptPlanner (DualBudgetManager).  stepRun.log is the      *)
(* order of the calls made.                                                *)
(***************************************************************************)
Executors == {"serial", "member", "stage", "withRetry"}
Backings == {"BudgetManager", "DualBudgetManager"}

\* the estimate the agent computes from its prompts, and what the response reports
StepEstimate == CostEstimate(10, 0, 30)
StepActual == [tokens |-> 160, cost |-> 0, wallTime |-> 0]

\* new Error('...') of the agent after a denied check: a plain Error
BudgetLimitError == ThrownError(FALSE, 0, "", "", "Error", FALSE)
\* what the LLM request may reject with
LlmErrors == {ThrownError(FALSE, 429, "rate_limit_exceeded", "", "Error", FALSE),
              ThrownError(FALSE, 400, "invalid_request_error", "", "Error", FALSE)}

\* BudgetManager.checkBudgetLimit(tokensToUse, costToAdd) on a loaded budget:
\* a boolean (budget.ts lines 96-126)
BudgetManagerCheck(b, tokensToUse, costToAdd) ==
  LET currentTier == b.tiers[b.current]
  IN ~ \/ RateAtLeast(Rate(b.usage.tokens + tokensToUse, currentTier.tokens), b.alerts.stopAt)
       \/ RateAtLeast(Rate(b.usage.costUSD + costToAdd, currentTier.monthly), b.alerts.stopAt)

\* BudgetManager.addUsage(tokens, cost) (budget.ts lines 128-135)
BudgetManagerAddUsage(b, tokens, cost) ==
  [b EXCEPT !.usage.tokens = @ + tokens, !.usage.costUSD = @ + cost]

\* the agent's admission step: what the manager answers (allowed) and what
\* the agent's test `if (!canProceed)` makes of the answer: a boolean is
\* tested as it is, a BudgetCheckResult object is truthy whatever it holds
Admission(backing, b, active, clock) ==
  IF backing = "BudgetManager"
    THEN LET ok == BudgetManagerCheck(b, StepEstimate.tokens, StepEstimate.estimatedCost)
         IN [allowed |-> ok, canProceed |-> ok]
    ELSE [allowed |-> CheckDecision(b, active, StepEstimate, clock).allowed,
          canProceed |-> TRUE]

\* the catch of the executor around agent.run: the serial loop and a stage
\* rethrow; a group member counts the attempt and waits or rethrows;
\* withRetry asks the classifier
StepCatch(s, err) ==
  CASE s.executor = "member" ->
         IF GroupMemberCatch(s.attempts, s.maxRetry, DefaultRetryDelay).throw
           THEN [s EXCEPT !.pc = "failed"] ELSE [s EXCEPT !.pc = "delay"]
    [] s.executor = "withRetry" ->
         IF WithRetryCatch(s.attempts, DefaultMaxAttempts, DefaultBackoffMs, err).throw
           THEN [s EXCEPT !.pc = "failed"] ELSE [s EXCEPT !.pc = "delay"]
    [] OTHER -> [s EXCEPT !.pc = "failed"]

StepKey == CacheKey("A", Lit("text"))

\* the ledger files of the model: nothing used yet, or 96% of the tokens used
StepBudgetFiles ==
  {DualBudget("minimal", Usage(used, 0, 0, SessionStartTime), 1) : used \in {0, 960}}

InitStep ==
  /\ entry = "step"
  /\ OrchestratorIdle
  /\ retry = RetryIdle
  /\ budgetFile \in StepBudgetFiles
  /\ budget = NoBudget
  /\ activeRequests = {}
  /\ budgetOp = NoBudgetOp
  /\ now = SessionStartTime
  /\ cacheFiles \in {EmptyRecord, CacheSet(EmptyRecord, StepKey, Out("A"), DaySeconds, SessionStartTime)}
  /\ cleanupStarted = FALSE
  /\ cacheOp = NoCacheOp
  /\ pipelineRun = NoPipelineRun
  /\ stored = EmptyRecord
  /\ TaskIdle
  /\ \E executor \in Executors, backing \in Backings, r \in 0..MaxRetry :
       stepRun = [executor |-> executor, backing |-> backing,
                  maxRetry |-> IF executor = "member" THEN r ELSE 0,
                  attempts |-> 0, pc |-> "start", log |-> <<>>]

\* the executor takes up the unit of work, up to its call of agent.run: a
\* stage asks the cache first and takes a truthy answer as the result
\* (pipeline-manager.ts lines 406-416); the serial loop and the group member
\* go straight to agent.run (orchestrator lines 55-57, 90-93), as does
\* AgentOrchestrator.execute (line 41)
StepBegin ==
  /\ stepRun.pc = "start"
  /\ IF stepRun.executor = "stage"
       THEN LET got == CacheGet(cacheFiles, StepKey, now)
            IN /\ cacheFiles' = got.files
               /\ cacheOp' = CacheOp("get", StepKey, Undefined, got.result, got.found,
                                     1 - cacheOp.seq)
               /\ stepRun' =
                    IF Truthy(got.result)
                      THEN [stepRun EXCEPT !.pc = "done",
                                           !.log = @ \o <<"cache.get", "record">>]
                      ELSE [stepRun EXCEPT !.pc = "agent", !.log = Append(@, "cache.get")]
       ELSE /\ stepRun' = [stepRun EXCEPT !.pc = "agent"]
            /\ UNCHANGED <<cacheFiles, cacheOp>>
  /\ UNCHANGED <<configVars, outcomeVars, orchestratorVars, failedAgents, managerVars, taskVars,
                 pc, runs, lastInput, retry, budgetVars, cleanupStarted, pipelineRun, stored>>

\* agent.run up to the LLM request: checkBudgetLimit, `if (!canProceed) throw`,
\* then provider.generateJSON is called (critic-agent.ts lines 92-103,
\* legacy concept-planner.ts lines 76-96)
AgentAdmission ==
  /\ stepRun.pc = "agent"
  /\ LET ensured == EnsureBudgetExists(budgetFile, "minimal", 1)
         answer == Admission(stepRun.backing, ensured.budget, activeRequests, now)
         called == [stepRun EXCEPT !.attempts = @ + 1]
     IN /\ budget' = ensured.budget
        /\ budgetFile' = ensured.file
        /\ stepRun' =
             IF answer.canProceed
               THEN [called EXCEPT
                       !.pc = "llm",
                       !.log = @ \o <<IF answer.allowed THEN "admission:allowed"
                                      ELSE "admission:denied", "llm">>]
               ELSE StepCatch([called EXCEPT
                                 !.log = @ \o <<"admission:denied", "throw:budget">>],
                              BudgetLimitError)
  /\ UNCHANGED <<configVars, outcomeVars, orchestratorVars, failedAgents, managerVars, taskVars,
                 pc, runs, lastInput, retry, activeRequests, budgetOp, now, cacheVars>>

\* the LLM request resolves: addUsage, agent.run returns, and the executor
\* records the result, a stage after storing it in the cache
StepLlmResolves ==
  /\ stepRun.pc = "llm"
  /\ budget' = IF stepRun.backing = "BudgetManager"
                 THEN BudgetManagerAddUsage(budget, StepActual.tokens, StepActual.cost)
                 ELSE AddUsageEffect(budget, activeRequests, StepActual, "undefined").budget
  /\ budgetFile' = budget'
  /\ IF stepRun.executor = "stage"
       THEN /\ cacheFiles' = CacheSet(cacheFiles, StepKey, Out("A"), DaySeconds, now)
            /\ cleanupStarted' = TRUE
            /\ cacheOp' = CacheOp("set", StepKey, Out("A"), Undefined, FALSE, 1 - cacheOp.seq)
            /\ stepRun' = [stepRun EXCEPT !.pc = "done",
                                          !.log = @ \o <<"debit", "cache.set", "record">>]
       ELSE /\ stepRun' = [stepRun EXCEPT !.pc = "done", !.log = @ \o <<"debit", "record">>]
            /\ UNCHANGED <<cacheFiles, cleanupStarted, cacheOp>>
  /\ UNCHANGED <<configVars, outcomeVars, orchestratorVars, failedAgents, managerVars, taskVars,
                 pc, runs, lastInput, retry, activeRequests, budgetOp, now, pipelineRun, stored>>

\* the LLM request rejects with err, which the agent rethrows to the executor
StepLlmRejects(err) ==
  /\ stepRun.pc = "llm"
  /\ stepRun' = StepCatch(stepRun, err)
  /\ UNCHANGED <<configVars, outcomeVars, orchestratorVars, failedAgents, managerVars, taskVars,
                 pc, runs, lastInput, retry, budgetVars, cacheVars>>

\* the timer of the retry delay fires: agent.run is called again
StepWake ==
  /\ stepRun.pc = "delay"
  /\ stepRun' = [stepRun EXCEPT !.pc = "agent"]
  /\ UNCHANGED <<configVars, outcomeVars, orchestratorVars, failedAgents, managerVars, taskVars,
                 pc, runs, lastInput, retry, budgetVars, cacheVars>>

NextStep ==
  \/ StepBegin
  \/ AgentAdmission
  \/ StepLlmResolves
  \/ \E err \in LlmErrors : StepLlmRejects(err)
  \/ StepWake

SpecStep == InitStep /\ [][NextStep]_vars

(***************************************************************************)
(* DualBudgetManager under concurrent callers: each request r is one task  *)
(* that calls checkBudgetLimit(estimate, r) and, when admitted,            *)
(* addUsage(actual, r).  A call is suspended at each await of file I/O     *)
(* (fs.access and fs.readFile in ensureBudgetExists, fs.writeFile in       *)
(* saveBudget) and the calls of the other tasks run in between.            *)
(***************************************************************************)
\* the actual amounts the requests settle: { tokens, cost, wallTime }
LedgerActuals ==
  { [tokens |-> 160, cost |-> 0, wallTime |-> 0],
    [tokens |-> 800, cost |-> 10, wallTime |-> 30] }

NoActual == [tokens |-> 0, cost |-> 0, wallTime |-> 0]

\* the estimates the requests ask admission for
LedgerEstimates == { CostEstimate(10, 0, 30), CostEstimate(10, 0, 400) }

\* where the task of a request is, what it asked and settled, the JSON text
\* its pending fs.writeFile was given, the result of its check, and how many
\* addUsage calls had been made when it was admitted
BudgetCall(at, estimate, actual, writing, result, settlesBefore) ==
  [pc |-> at, estimate |-> estimate, actual |-> actual, writing |-> writing,
   result |-> result, settlesBefore |-> settlesBefore]

\* the requests whose addUsage call was made
SettleCalls(calls) == {r \in DOMAIN calls : calls[r].pc \in {"write", "settled"}}

InitLedger ==
  /\ entry = "ledger"
  /\ OrchestratorIdle
  /\ retry = RetryIdle
  /\ budgetFile \in {DualBudget("minimal", Usage(0, 0, 0, startTime), maxConc) :
                       startTime \in {NoStartTime, SessionStartTime - 60},
                       maxConc \in 1..MaxConc}
  /\ budget = NoBudget
  /\ activeRequests = {}
  /\ now = SessionStartTime
  /\ budgetOp = NoBudgetOp
  /\ CacheIdle
  /\ StepIdle
  /\ budgetCalls = [r \in RequestIds |-> BudgetCall("idle", CostEstimate(0, 0, 0), NoActual,
                                                     NoFile, Void, 0)]
  /\ classified = NoClassified
  /\ maxSize = 0
  /\ parallelRun = NoParallelRun
  /\ scheduler = NoScheduler

\* checkBudgetLimit(estimate, r) is called and runs to the first await of file
\* I/O: ensureBudgetExists -> pathExists -> fs.access (lines 179-180, 64-65,
\* 74-77)
LedgerCheckCalled(r, estimate) ==
  /\ budgetCalls[r].pc = "idle"
  /\ budgetCalls' = [budgetCalls EXCEPT ![r].pc = "load", ![r].estimate = estimate]
  /\ UNCHANGED <<budgetFile, budget, activeRequests>>
  /\ UNCHANGED <<configVars, outcomeVars, orchestratorVars, failedAgents, managerVars, stepRun,
                 pc, runs, lastInput, retry, now, budgetOp, cacheVars,
                 classified, maxSize, parallelRun, scheduler>>

\* the file is there and fs.readFile returns its content: loadBudget replaces
\* this.budget by the parsed file (lines 157-158); a file without startTime
\* gets one and saveBudget starts a write (lines 161-163, 170-173)
LedgerLoaded(r) ==
  /\ budgetCalls[r].pc = "load"
  /\ budget' = LoadBudget(budgetFile)
  /\ budgetCalls' =
       IF budgetFile.usage.startTime = NoStartTime
         THEN [budgetCalls EXCEPT ![r].pc = "save", ![r].writing = LoadBudget(budgetFile)]
         ELSE [budgetCalls EXCEPT ![r].pc = "decide"]
  /\ UNCHANGED <<budgetFile, activeRequests>>
  /\ UNCHANGED <<configVars, outcomeVars, orchestratorVars, failedAgents, managerVars, stepRun,
                 pc, runs, lastInput, retry, now, budgetOp, cacheVars,
                 classified, maxSize, parallelRun, scheduler>>

\* a pending fs.writeFile completes: the file holds the text it was given,
\* JSON.stringify(this.budget) as it was when writeJson was called (line 94);
\* loadBudget then returns, addUsage returns
LedgerWritten(r) ==
  /\ budgetCalls[r].pc \in {"save", "write"}
  /\ budgetFile' = budgetCalls[r].writing
  /\ budgetCalls' = [budgetCalls EXCEPT
                       ![r].pc = IF budgetCalls[r].pc = "save" THEN "decide" ELSE "settled"]
  /\ UNCHANGED <<budget, activeRequests>>
  /\ UNCHANGED <<configVars, outcomeVars, orchestratorVars, failedAgents, managerVars, stepRun,
                 pc, runs, lastInput, retry, now, budgetOp, cacheVars,
                 classified, maxSize, parallelRun, scheduler>>

\* checkBudgetLimit goes on after await this.ensureBudgetExists(): the rates,
\* the denials and this.activeRequests.add(r), without an await (lines
\* 181-247)
LedgerDecided(r) ==
  /\ budgetCalls[r].pc = "decide"
  /\ LET result == CheckDecision(budget, activeRequests, budgetCalls[r].estimate, now)
         effect == CheckEffect(budget, activeRequests, result, budgetCalls[r].estimate, r)
     IN /\ budget' = effect.budget
        /\ activeRequests' = effect.active
        /\ budgetCalls' = [budgetCalls EXCEPT
                             ![r].pc = IF result.allowed THEN "admitted" ELSE "denied",
                             ![r].result = result,
                             ![r].settlesBefore = Cardinality(SettleCalls(budgetCalls))]
  /\ UNCHANGED budgetFile
  /\ UNCHANGED <<configVars, outcomeVars, orchestratorVars, failedAgents, managerVars, stepRun,
                 pc, runs, lastInput, retry, now, budgetOp, cacheVars,
                 classified, maxSize, parallelRun, scheduler>>

\* addUsage(actual, r) is called by the admitted request: the three sums and
\* this.activeRequests.delete(r), then saveBudget hands the text of
\* this.budget to fs.writeFile and awaits it (lines 253-265, 170-173, 94)
LedgerSettleCalled(r, actual) ==
  /\ budgetCalls[r].pc = "admitted"
  /\ budget # NoBudget
  /\ LET effect == AddUsageEffect(budget, activeRequests, actual, r)
     IN /\ budget' = effect.budget
        /\ activeRequests' = effect.active
        /\ budgetCalls' = [budgetCalls EXCEPT ![r].pc = "write", ![r].actual = actual,
                                              ![r].writing = effect.budget]
  /\ UNCHANGED budgetFile
  /\ UNCHANGED <<configVars, outcomeVars, orchestratorVars, failedAgents, managerVars, stepRun,
                 pc, runs, lastInput, retry, now, budgetOp, cacheVars,
                 classified, maxSize, parallelRun, scheduler>>

NextLedger ==
  \/ \E r \in RequestIds, estimate \in LedgerEstimates : LedgerCheckCalled(r, estimate)
  \/ \E r \in RequestIds : LedgerLoaded(r)
  \/ \E r \in RequestIds : LedgerWritten(r)
  \/ \E r \in RequestIds : LedgerDecided(r)
  \/ \E r \in RequestIds, actual \in LedgerActuals : LedgerSettleCalled(r, actual)

SpecLedger == InitLedger /\ [][NextLedger]_vars

(***************************************************************************)
(* The two classifiers on their own: classifyError (error-classifier.ts)   *)
(* and ErrorClassifier.classify, applied to one thrown value.  The message *)
(* of the thrown value is the set of the words that classify looks for     *)
(* and that occur in it, in lower case.                                    *)
(***************************************************************************)
ErrorInfo(type, retryable) == [type |-> type, retryable |-> retryable]

\* ErrorClassifier.classify(error): the first test that matches, in the order
\* network, api limit, budget, validation, timeout, schema
Classify(words, code, statusCode) ==
  IF \/ words \cap {"network", "connection", "fetch"} # {}
     \/ code \in {"ENOTFOUND", "ECONNREFUSED", "ETIMEDOUT"}
     \/ statusCode \in {502, 503, 504}
    THEN ErrorInfo("network", TRUE)
  ELSE IF words \cap {"rate limit", "quota", "limit"} # {} \/ statusCode = 429
    THEN ErrorInfo("api_limit", TRUE)
  ELSE IF words \cap {"budget", "cost"} # {} THEN ErrorInfo("budget", FALSE)
  ELSE IF words \cap {"validation", "invalid", "required", "format"} # {}
    THEN ErrorInfo("validation", FALSE)
  ELSE IF words \cap {"timeout", "timed out"} # {} \/ code = "ETIMEDOUT"
    THEN ErrorInfo("timeout", TRUE)
  ELSE IF words \cap {"schema", "json", "parse"} # {} THEN ErrorInfo("schema", FALSE)
  ELSE ErrorInfo("unknown", FALSE)

\* the thrown values: a ZodError, or an object with any of an HTTP status with
\* error.type, a code, the name TimeoutError and fatal: true
ThrownValues ==
  {ThrownError(TRUE, 0, "", "", "ZodError", FALSE)}
  \cup {ThrownError(FALSE, api[1], api[2], code, name, fatal) :
          api \in {<<0, "">>, <<429, "rate_limit_exceeded">>, <<408, "timeout">>,
                   <<503, "server_error">>, <<400, "invalid_request_error">>},
          code \in {"", "ECONNRESET", "ETIMEDOUT", "ENOENT"},
          name \in {"Error", "TimeoutError"},
          fatal \in BOOLEAN}

\* the words of the message
MessageWords == {{}, {"timeout"}, {"connection"}, {"timeout", "invalid"}}

Classified(at, err, words, motiva, info) ==
  [tag |-> "classified", pc |-> at, err |-> err, words |-> words, motiva |-> motiva,
   info |-> info]

InitClassify ==
  /\ entry = "classify"
  /\ OrchestratorIdle
  /\ retry = RetryIdle
  /\ BudgetIdle
  /\ CacheIdle
  /\ StepIdle
  /\ budgetCalls = <<>>
  /\ \E err \in ThrownValues, words \in MessageWords :
       classified = Classified("thrown", err, words, MotivaError("", FALSE),
                               ErrorInfo("", FALSE))
  /\ maxSize = 0
  /\ parallelRun = NoParallelRun
  /\ scheduler = NoScheduler

\* classifyError(error) and ErrorClassifier.classify(error) on the thrown value
Classification ==
  /\ classified.pc = "thrown"
  /\ classified' = [classified EXCEPT
                      !.pc = "classified",
                      !.motiva = ClassifyError(classified.err),
                      !.info = Classify(classified.words, classified.err.code,
                                        classified.err.status)]
  /\ UNCHANGED <<configVars, outcomeVars, orchestratorVars, failedAgents, managerVars, stepRun,
                 pc, runs, lastInput, retry, budgetVars, cacheVars,
                 budgetCalls, maxSize, parallelRun, scheduler>>

SpecClassify == InitClassify /\ [][Classification]_vars

(***************************************************************************)
(* CacheManager.enforceSizeLimit (cache-manager.ts lines 282-315) over the *)
(* directory that set() fills.  Sizes are in units of the smallest file.   *)
(***************************************************************************)
\* stats.size of an entry's file: the JSON text of the entry, longer for the
\* larger payload
FileSize(file) == IF EntryData(file) = Out("A") THEN 2 ELSE 1

RECURSIVE SizeOfFiles(_, _)
SizeOfFiles(files, keys) ==
  IF keys = {} THEN 0
  ELSE LET k == CHOOSE x \in keys : TRUE
       IN FileSize(files[k]) + SizeOfFiles(files, keys \ {k})

\* the entries within their ttl (line 180)
ValidEntries(files, clock) ==
  {k \in DOMAIN files : clock - files[k].timestamp <= files[k].ttl}

\* getStats().totalSize: stats.size is added for every file read, the expired
\* ones that are then unlinked included; 0 without a valid entry (lines
\* 154-209)
StatsTotalSize(files, clock) ==
  IF ValidEntries(files, clock) = {} THEN 0 ELSE SizeOfFiles(files, DOMAIN files)

\* fileInfos[0] after the sort by mtime: a file written earliest
OldestFiles(files) ==
  {k \in DOMAIN files : \A j \in DOMAIN files : files[k].timestamp <= files[j].timestamp}

\* the loop of lines 304-311: unlink the oldest file, ask getStats again,
\* stop when the total is within the limit; the directories it may leave
RECURSIVE EvictOldest(_, _, _)
EvictOldest(files, limit, clock) ==
  IF DOMAIN files = {} THEN {files}
  ELSE UNION { IF StatsTotalSize(RemoveFile(files, k), clock) <= limit
                 THEN {RemoveFile(files, k)}
                 ELSE EvictOldest(RemoveFile(files, k), limit, clock) :
               k \in OldestFiles(files) }

\* this.maxSize, in the units of FileSize
SizeLimits == {1, 2}

InitCacheSize ==
  /\ entry = "cacheSize"
  /\ OrchestratorIdle
  /\ retry = RetryIdle
  /\ BudgetIdle
  /\ CacheIdle
  /\ StepIdle
  /\ budgetCalls = <<>>
  /\ classified = NoClassified
  /\ maxSize \in SizeLimits
  /\ parallelRun = NoParallelRun
  /\ scheduler = NoScheduler

\* cacheManager.enforceSizeLimit(): getStats unlinks the expired entries and
\* returns the total; over the limit, the files left are unlinked oldest
\* first (lines 282-315)
EnforceSizeLimit ==
  /\ cacheFiles' \in
       IF StatsTotalSize(cacheFiles, now) > maxSize
         THEN EvictOldest(CacheCleanup(cacheFiles, now), maxSize, now)
         ELSE {CacheCleanup(cacheFiles, now)}
  /\ cleanupStarted' = TRUE
  /\ cacheOp' = CacheOp("enforceSizeLimit", "", Undefined, Undefined, FALSE, 1 - cacheOp.seq)
  /\ UNCHANGED <<configVars, outcomeVars, orchestratorVars, failedAgents, managerVars, taskVars, stepRun,
                 pc, runs, lastInput, retry, budgetVars, pipelineRun, stored>>

NextCacheSize ==
  \/ \E key \in CacheKeys, data \in PayloadChoices, ttl \in TtlChoices : Set(key, data, ttl)
  \/ EnforceSizeLimit
  \/ Tick

SpecCacheSize == InitCacheSize /\ [][NextCacheSize]_vars

(***************************************************************************)
(* ParallelPipelineOrchestrator.execute on pipelines of parallel steps     *)
(* only, with every maxConcurrency the schema accepts for a group          *)
(* (z.number(): zero and negative numbers too) and an orchestrator built   *)
(* with zero, a negative number or the default.                            *)
(***************************************************************************)
\* ParallelGroupSchema.maxConcurrency and options.maxConcurrency: z.number()
GateSizes == (0 - 1)..MaxConc
OptionSizes == {0 - 1, 0, DefaultMaxConcurrency}

\* new ParallelPipelineOrchestrator(pipelineConfig.options?.maxConcurrency || 3)
CliMaxConcurrency(option) == IF option # 0 THEN option ELSE DefaultMaxConcurrency

\* steps that are all parallel, in the group G or in no named group; B and C
\* may depend on A
GroupAgentLists ==
  {<<AgentConfig("A", FALSE, <<>>, TRUE, ga, InputOf("A")),
     AgentConfig("B", db # <<>>, db, TRUE, gb, InputOf("B")),
     AgentConfig("C", dc # <<>>, dc, TRUE, gc, InputOf("C"))>> :
     ga \in {"", "G"}, gb \in {"", "G"}, gc \in {"", "G"},
     db \in {<<>>, <<"A">>}, dc \in {<<>>, <<"A">>}}

InitGroup ==
  /\ entry = "execute"
  /\ \E agents \in GroupAgentLists, c \in GateSizes, r \in 0..MaxRetry :
       pipelineConfig = [agents |-> agents, parallelGroups |-> <<ParallelGroup("G", c, r)>>]
  /\ \E option \in OptionSizes : maxConcurrency = CliMaxConcurrency(option)
  /\ pc = "loop"
  /\ agentResults = EmptyRecord
  /\ InitLocals
  /\ LibraryIdle

NextGroup ==
  \/ Resolve
  \/ BuildGroups
  \/ LaunchGroup
  \/ GroupsDone
  \/ \E n \in AllNames : MemberRetry(n)
  \/ \E n \in AllNames : MemberSucceed(n)
  \/ \E n \in AllNames : MemberFail(n)
  \/ AwaitGroupReject
  \/ AwaitGroupResolve

SpecGroup == InitGroup /\ [][NextGroup]_vars

\* every attempt of a step settles, every timer fires and every settled
\* promise is taken up
FairSpecGroup == SpecGroup /\ WF_vars(NextGroup)

(***************************************************************************)
(* ParallelOrchestrator.executeParallel and executeIndependentParallel     *)
(* (pipeline-manager.ts lines 277-365, 468-540): one task per agent, each  *)
(* behind the orchestrator's Semaphore, its agent.run raced against a      *)
(* timer.                                                                  *)
(***************************************************************************)
ParallelMethods == {"executeParallel", "executeIndependentParallel"}

\* the agents handed to one call: the first k of A, B, C
ParallelAgentLists == {SubSeq(StepNames, 1, k) : k \in 1..Len(StepNames)}

\* task: where each task's async function is; inFlight: the agents whose
\* run() has been called and has not settled; outcome: the returned promise
ParallelRun(method, agents, permits, sem, task, inFlight, outcome) ==
  [tag |-> "run", method |-> method, agents |-> agents, maxConcurrency |-> permits,
   semaphore |-> sem, task |-> task, inFlight |-> inFlight, outcome |-> outcome]

\* new ParallelOrchestrator(maxConcurrency), no call made yet
InitParallel ==
  /\ entry = "parallel"
  /\ OrchestratorIdle
  /\ retry = RetryIdle
  /\ BudgetIdle
  /\ CacheIdle
  /\ StepIdle
  /\ budgetCalls = <<>>
  /\ classified = NoClassified
  /\ maxSize = 0
  /\ \E permits \in 1..MaxConc, method \in ParallelMethods, agents \in ParallelAgentLists :
       parallelRun = ParallelRun(method, agents, permits, NewSemaphore(permits),
                                 [n \in AllNames |-> "none"], {}, "new")
  /\ scheduler = NoScheduler

ParallelFrame ==
  UNCHANGED <<configVars, outcomeVars, orchestratorVars, failedAgents, managerVars, stepRun,
              pc, runs, lastInput, retry, budgetVars, cacheVars,
              budgetCalls, classified, maxSize, scheduler>>

\* agents.map(async ...): every task calls this.semaphore.acquire() in turn;
\* those it admits go on to Promise.race([agent.run(input), timer])
ExecuteParallelCalled ==
  /\ parallelRun.tag = "run"
  /\ parallelRun.outcome = "new"
  /\ LET members == [i \in DOMAIN parallelRun.agents |-> [name |-> parallelRun.agents[i]]]
         acq == AcquireAll(parallelRun.semaphore, members)
     IN parallelRun' = [parallelRun EXCEPT
                          !.semaphore = acq.sem,
                          !.task = [n \in AllNames |->
                                      IF n \in acq.granted THEN "running"
                                      ELSE IF n \in Range(parallelRun.agents) THEN "waiting"
                                      ELSE "none"],
                          !.inFlight = acq.granted,
                          !.outcome = "pending"]
  /\ ParallelFrame

\* the finally of a task: this.semaphore.release(), and the waiter it
\* resumes calls its agent's run
TaskSettled(run, n, how, stillRunning) ==
  LET rel == Release(run.semaphore)
  IN [run EXCEPT
        !.semaphore = rel.sem,
        !.task = [m \in AllNames |->
                    IF m = n THEN how
                    ELSE IF m \in rel.resumed THEN "running" ELSE run.task[m]],
        !.inFlight = ((run.inFlight \ {n}) \cup stillRunning) \cup rel.resumed]

\* agent.run(input) resolved before the timer: return result
TaskRunResolves(n) ==
  /\ parallelRun.tag = "run"
  /\ parallelRun.task[n] = "running"
  /\ parallelRun' = TaskSettled(parallelRun, n, "fulfilled", {})
  /\ ParallelFrame

\* agent.run(input) rejected before the timer: catch, throw error
TaskRunRejects(n) ==
  /\ parallelRun.tag = "run"
  /\ parallelRun.task[n] = "running"
  /\ parallelRun' = TaskSettled(parallelRun, n, "rejected", {})
  /\ ParallelFrame

\* the timer fired first: the race rejects with Timeout, the task throws and
\* releases, and nothing stops agent.run(input)
TaskTimeoutFires(n) ==
  /\ parallelRun.tag = "run"
  /\ parallelRun.task[n] = "running"
  /\ parallelRun' = TaskSettled(parallelRun, n, "timeout", {n})
  /\ ParallelFrame

\* the run of a timed-out task settles at last; nobody reads its result
LateRunSettles(n) ==
  /\ parallelRun.tag = "run"
  /\ parallelRun.task[n] = "timeout"
  /\ n \in parallelRun.inFlight
  /\ parallelRun' = [parallelRun EXCEPT !.inFlight = parallelRun.inFlight \ {n}]
  /\ ParallelFrame

\* await Promise.allSettled(tasks) (line 336) or Promise.all(tasks) (line 523)
ParallelReturns ==
  /\ parallelRun.tag = "run"
  /\ parallelRun.outcome = "pending"
  /\ LET tasks == Range(parallelRun.agents)
         settled == {n \in tasks : parallelRun.task[n] \in {"fulfilled", "rejected", "timeout"}}
         thrown == {n \in tasks : parallelRun.task[n] \in {"rejected", "timeout"}}
     IN IF parallelRun.method = "executeParallel"
          THEN /\ settled = tasks
               /\ parallelRun' = [parallelRun EXCEPT !.outcome = "resolved"]
          ELSE \/ /\ thrown # {}
                  /\ parallelRun' = [parallelRun EXCEPT !.outcome = "rejected"]
               \/ /\ thrown = {}
                  /\ settled = tasks
                  /\ parallelRun' = [parallelRun EXCEPT !.outcome = "resolved"]
  /\ ParallelFrame

NextParallel ==
  \/ ExecuteParallelCalled
  \/ \E n \in AllNames : TaskRunResolves(n)
  \/ \E n \in AllNames : TaskRunRejects(n)
  \/ \E n \in AllNames : TaskTimeoutFires(n)
  \/ \E n \in AllNames : LateRunSettles(n)
  \/ ParallelReturns

SpecParallel == InitParallel /\ [][NextParallel]_vars

(***************************************************************************)
(* DAGScheduler.execute (packages/core/src/scheduler.ts lines 14-52): the  *)
(* runs that the subscribed agents' handlers hand to schedule().  Runs are *)
(* numbered in the order in which schedule() receives them.                *)
(***************************************************************************)
JobIds == 1..MaxJobs

\* running, queue: execute's locals; job: where each scheduled fn is;
\* unhandled: a promise of fn().finally(...) has rejected and nothing
\* handles it; exited: the process has ended
Scheduler(maxConc, running, queue, job, created, phase, unhandled, exited) ==
  [tag |-> "execute", maxConc |-> maxConc, running |-> running, queue |-> queue,
   job |-> job, created |-> created, phase |-> phase, unhandled |-> unhandled,
   exited |-> exited]

\* schedule(fn) for the run id
Schedule(s, id) ==
  IF s.running < s.maxConc
    THEN [s EXCEPT !.running = s.running + 1, !.job[id] = "running"]
    ELSE [s EXCEPT !.queue = Append(s.queue, id), !.job[id] = "queued"]

\* a published event reaches k subscribed agents: each handler calls
\* schedule with a new fn
RECURSIVE Publish(_, _)
Publish(s, k) ==
  IF k = 0 THEN s
  ELSE Publish(Schedule([s EXCEPT !.created = s.created + 1], s.created + 1), k - 1)

\* the callback of fn().finally: running--, queue.shift(), schedule(next)
Finally(s, id, how) ==
  LET freed == [s EXCEPT !.running = s.running - 1, !.job[id] = how]
  IN IF freed.queue # <<>>
       THEN Schedule([freed EXCEPT !.queue = Tail(freed.queue)], Head(freed.queue))
       ELSE freed

\* execute has made its locals and subscribed the agents (lines 15-47)
InitScheduler ==
  /\ entry = "scheduler"
  /\ OrchestratorIdle
  /\ retry = RetryIdle
  /\ BudgetIdle
  /\ CacheIdle
  /\ StepIdle
  /\ budgetCalls = <<>>
  /\ classified = NoClassified
  /\ maxSize = 0
  /\ parallelRun = NoParallelRun
  /\ \E maxConc \in 1..MaxConc :
       scheduler = Scheduler(maxConc, 0, <<>>, [id \in JobIds |-> "none"], 0,
                             "subscribed", FALSE, FALSE)

SchedulerFrame ==
  UNCHANGED <<configVars, outcomeVars, orchestratorVars, failedAgents, managerVars, stepRun,
              pc, runs, lastInput, retry, budgetVars, cacheVars,
              budgetCalls, classified, maxSize, parallelRun>>

SchedulerAlive == scheduler.tag = "execute" /\ ~scheduler.exited

\* await this.bus.publish(initialEventType, initialPayload) (line 50)
KickOff ==
  /\ SchedulerAlive
  /\ scheduler.phase = "subscribed"
  /\ \E k \in 1..MaxFan :
       /\ k <= MaxJobs
       /\ scheduler' = [Publish(scheduler, k) EXCEPT !.phase = "published"]
  /\ SchedulerFrame

\* agent.run resolved; an output is published to the k agents that consume
\* it (lines 37-44)
RunReturns(id) ==
  /\ SchedulerAlive
  /\ scheduler.job[id] = "running"
  /\ \E k \in 0..MaxFan :
       /\ scheduler.created + k <= MaxJobs
       /\ scheduler' = Publish([scheduler EXCEPT !.job[id] = "publishing"], k)
  /\ SchedulerFrame

\* fn resolved: the finally callback (lines 22-26)
RunFinally(id) ==
  /\ SchedulerAlive
  /\ scheduler.job[id] = "publishing"
  /\ scheduler' = Finally(scheduler, id, "resolved")
  /\ SchedulerFrame

\* agent.run rejected, so fn rejected: the finally callback runs, and the
\* promise that finally returned rejects with nothing attached to it
RunFails(id) ==
  /\ SchedulerAlive
  /\ scheduler.job[id] = "running"
  /\ scheduler' = [Finally(scheduler, id, "rejected") EXCEPT !.unhandled = TRUE]
  /\ SchedulerFrame

\* the unhandled rejection ends the process (the default of the node
\* versions package.json asks for, and what the handler of src/index.ts does)
ProcessExits ==
  /\ SchedulerAlive
  /\ scheduler.unhandled
  /\ scheduler' = [scheduler EXCEPT !.exited = TRUE]
  /\ SchedulerFrame

\* the host has an unhandledRejection handler that only reports
RejectionReported ==
  /\ SchedulerAlive
  /\ scheduler.unhandled
  /\ scheduler' = [scheduler EXCEPT !.unhandled = FALSE]
  /\ SchedulerFrame

NextScheduler ==
  \/ KickOff
  \/ \E id \in JobIds : RunReturns(id)
  \/ \E id \in JobIds : RunFinally(id)
  \/ \E id \in JobIds : RunFails(id)
  \/ ProcessExits
  \/ RejectionReported

SpecScheduler == InitScheduler /\ [][NextScheduler]_vars

\* every run settles and every settled promise's callbacks are called
FairSpecScheduler == SpecScheduler /\ WF_vars(NextScheduler)

(***************************************************************************)
(* Vocabulary of the properties                                            *)
(***************************************************************************)
AgentSet == Range(pipelineConfig.agents)
Deps(a) == Range(a.dependencies)
Holders == {n \in AllNames : member[n] \in {"running", "delay"}}
Waiting == {n \in AllNames : member[n] = "waiting"}
NoStepExecuted == \A n \in AllNames : runs[n] = 0

\* position of a member in the launch order of its group
Pos(n) == CHOOSE i \in DOMAIN groupAgents : groupAgents[i].name = n

\* the steps reachable from n along at most k dependency edges
RECURSIVE ReachableIn(_, _)
ReachableIn(n, k) ==
  IF k = 0 THEN {}
  ELSE LET direct == Deps(AgentNamed(n)) \cap AllNames
       IN direct \cup UNION {ReachableIn(m, k - 1) : m \in direct}

HasCycle == \E n \in AllNames : n \in ReachableIn(n, Len(StepNames))
HasUnknownDependency == \E a \in AgentSet : ~(Deps(a) \subseteq AllNames)

\* the ready set as section 4.1 of the specification defines it
SpecifiedReadySet == {a \in AgentSet : a.name \notin completed /\ Deps(a) \subseteq completed}

\* the state of a step in the state machine of section 4.2
StepState(n) ==
  IF n \in completed THEN "Completed"
  ELSE IF n \in failedAgents THEN "Failed"
  ELSE IF n \in Holders \/ (pc \in {"serialRun", "stageRun"} /\ n = Head(serialAgents \o stages).name)
    THEN "Running"
  ELSE IF n \in Waiting THEN "Ready"
  ELSE IF status = "running" THEN "Pending"
  ELSE "Skipped"

(***************************************************************************)
(* C1  In a parallel group executed with maxConcurrency = N (N >= 1), at   *)
(* most N members hold a permit of the group's Semaphore at any time,      *)
(* whatever the interleaving of completions, failures and retries.         *)
(***************************************************************************)
C1_ConcurrencyBound ==
  groupAgents # <<>> => groupConcurrency >= 1 /\ Cardinality(Holders) <= groupConcurrency

\* the bound is reached while a member is queued and another one is between
\* two attempts
C1_Witness ==
  /\ Cardinality(Holders) = groupConcurrency
  /\ Waiting # {}
  /\ \E n \in AllNames : member[n] = "delay"

(***************************************************************************)
(* C2  release() with a queued acquire() resumes exactly the waiter queued *)
(* longest and leaves the free-permit counter unchanged; it increments the *)
(* counter only when no waiter is queued.                                  *)
(***************************************************************************)
C2_ReleaseFifo ==
  [][\A n \in AllNames :
       (member[n] = "running" /\ member'[n] \in {"done", "failed"}) =>
         IF Waiting # {}
           THEN /\ semaphore'.permits = semaphore.permits
                /\ \E o \in Waiting :
                     /\ \A m \in Waiting : Pos(o) <= Pos(m)
                     /\ member'[o] = "running"
                     /\ \A m \in Waiting \ {o} : member'[m] = "waiting"
                     /\ Range(semaphore'.waitQueue) = Waiting \ {o}
           ELSE /\ semaphore'.permits = semaphore.permits + 1
                /\ semaphore'.waitQueue = <<>>]_vars

\* a release has resumed the first of two queued members
C2_Witness ==
  \E a, b, c \in AllNames :
    /\ member[a] \in {"done", "failed"}
    /\ member[b] = "running" /\ attempt[b] = 0
    /\ member[c] = "waiting"
    /\ Pos(a) < Pos(b) /\ Pos(b) < Pos(c)

(***************************************************************************)
(* C3  In every round the ready set is exactly the set of steps that are   *)
(* not completed and whose every dependency is completed.                  *)
(***************************************************************************)
C3_ReadySet ==
  [][(pc = "loop" /\ status' # "success") => Range(readyAgents') = SpecifiedReadySet]_vars

\* a round in which a step is held back by an uncompleted dependency while
\* another step, with a completed dependency, is ready
C3_Witness ==
  /\ pc = "serial"
  /\ serialAgents = SerialAgents(readyAgents)
  /\ completed # {}
  /\ \E a \in Range(readyAgents) : Deps(a) # {}
  /\ \E a \in AgentSet : a.name \notin completed /\ a \notin Range(readyAgents)

(***************************************************************************)
(* C4  A pipeline whose dependency graph contains a cycle is reported as   *)
(* graph-stalled before any of its steps, on the cycle or not, executes.   *)
(***************************************************************************)
C4_CycleReportedBeforeAnyStep ==
  (entry = "execute" /\ HasCycle) =>
    /\ NoStepExecuted
    /\ pc = "done" => error = "graph-stalled"

(***************************************************************************)
(* C5  Whenever the ready set is empty while completed does not contain    *)
(* all steps, execute aborts with the graph-stalled error; afterwards no   *)
(* step is executed and nothing is retried.                                *)
(***************************************************************************)
C5_StallAborts ==
  [][/\ (pc = "loop" /\ SpecifiedReadySet = {} /\ ~(AllNames \subseteq completed)) =>
          (status' = "failed" /\ error' = "graph-stalled" /\ pc' = "done")
     /\ error = "graph-stalled" => UNCHANGED vars]_vars

\* a run that stalled after some steps had completed
C5_Witness == error = "graph-stalled" /\ completed # {} /\ pc = "done"

(***************************************************************************)
(* C6  For an acyclic pipeline with unique step names whose dependencies   *)
(* all exist, once the run has terminated every step is Completed, Failed  *)
(* or Skipped, never Pending, Ready or Running.                            *)
(***************************************************************************)
C6_FinalStates ==
  (entry = "execute" /\ ~HasCycle /\ ~HasUnknownDependency /\ status # "running") =>
    \A n \in AllNames : StepState(n) \in {"Completed", "Failed", "Skipped"}

(***************************************************************************)
(* C7  A pipeline with a dependency that names no step is rejected before  *)
(* any step executes, by PipelineManager.executePipeline and by            *)
(* ParallelPipelineOrchestrator.execute.                                   *)
(***************************************************************************)
C7_UnknownDependencyRejected ==
  (entry \in {"execute", "executePipeline"} /\ HasUnknownDependency) =>
    /\ NoStepExecuted
    /\ pc = "done" => status = "failed"

(***************************************************************************)
(* C8  resolveInput returns, for a step without dependencies, the step's   *)
(* literal input whenever one is present, falsy literals included, and     *)
(* otherwise the initial input; for a step with dependencies, the list of  *)
(* results[dep] in declaration order, as long as the dependency list.      *)
(***************************************************************************)
C8_ResolveInputContract ==
  (entry = "resolveInput" /\ pc = "done") =>
    LET agentConfig == pipelineConfig.agents[1]
        result == lastInput[agentConfig.name]
        dependencies == agentConfig.dependencies
    IN IF dependencies = <<>>
         THEN result = IF agentConfig.input # Undefined THEN agentConfig.input ELSE UserInput
         ELSE /\ result.tag = "list"
              /\ Len(result.v) = Len(dependencies)
              /\ \A i \in DOMAIN dependencies :
                   result.v[i] = IF dependencies[i] \in DOMAIN agentResults
                                   THEN agentResults[dependencies[i]] ELSE Undefined

(***************************************************************************)
(* C9  In a linear chain of serial steps that all succeed, the run         *)
(* succeeds, the steps run in chain order exactly once each, the results   *)
(* hold one output per step, and each step after the first receives the    *)
(* one-element list of its predecessor's result.                           *)
(***************************************************************************)
Chains == {p \in [DOMAIN StepNames -> AllNames] : \A i, j \in DOMAIN p : p[i] = p[j] => i = j}

IsChain(p) ==
  \A i \in DOMAIN p :
    LET a == AgentNamed(p[i])
    IN /\ ~a.parallel
       /\ a.dependencies = IF i = 1 THEN <<>> ELSE <<p[i - 1]>>

C9_LinearChain ==
  (entry = "execute" /\ \A a \in AgentSet : ~a.parallel) =>
    \A p \in Chains : IsChain(p) =>
      /\ \A i \in DOMAIN p : runs[p[i]] <= 1
      /\ \A i \in DOMAIN p \ {1} :
           runs[p[i]] > 0 =>
             /\ p[i - 1] \in completed
             /\ lastInput[p[i]] = [tag |-> "list", v |-> <<Lookup(agentResults, p[i - 1])>>]
      /\ (pc = "done" /\ failedAgents = {}) => status = "success"
      /\ status = "success" =>
           /\ returned.has
           /\ DOMAIN returned.results = AllNames
           /\ \A n \in AllNames : runs[n] = 1 /\ returned.results[n] = Out(n)

\* a chain declared in the reverse of its execution order has succeeded
C9_Witness ==
  /\ entry = "execute"
  /\ IsChain(<<"C", "B", "A">>)
  /\ status = "success"

(***************************************************************************)
(* C10 When a member of a parallel group fails permanently after a sibling *)
(* has succeeded, the run is failed, the results handed to the caller hold *)
(* the sibling's output, and no step depending on a member of the group    *)
(* is executed.                                                            *)
(***************************************************************************)
C10_LateFailureKeepsSiblingResult ==
  \A s \in doneAtFailure :
    pc = "done" =>
      /\ status = "failed"
      /\ returned.has /\ Lookup(returned.results, s) = Out(s)
      /\ \A d \in AllNames : Deps(AgentNamed(d)) \cap GroupNames # {} => runs[d] = 0

(***************************************************************************)
(* Claims about the retry loops (SpecRetry)                                *)
(***************************************************************************)
\* the latest call of the operation failed and its catch block has decided
FailedAttempt == retry.outcome = "failed" /\ retry.pc \in {"sleep", "thrown"}
LastKind == retry.kinds[Len(retry.kinds)]

\* C11: withRetry calls the operation at most maxAttempts times; a failure the
\* classifier marks non-retryable, or the failure of attempt number
\* maxAttempts, is propagated at once with no further call; the first
\* successful attempt's value is returned with no further call
C11_WithRetryAttempts ==
  retry.fn = "withRetry" =>
    /\ retry.calls <= retry.maxAttempts
    /\ retry.pc \in {"running", "sleep", "returned"} => retry.calls = retry.attempt
    /\ (FailedAttempt /\ (~ClassifyError(retry.lastError).retriable
                           \/ retry.attempt = retry.maxAttempts))
         => (retry.pc = "thrown" /\ retry.calls = retry.attempt)
    /\ retry.outcome = "ok"
         => /\ retry.pc = "returned"
            /\ retry.result \in OperationValues
            /\ retry.calls = Len(retry.kinds) + 1

C11_Witness ==
  /\ retry.fn = "withRetry"
  /\ retry.maxAttempts >= 2
  /\ retry.pc = "thrown"
  /\ retry.calls = retry.maxAttempts

\* C12: in withRetry and withRetryForErrorTypes the k-th delay slept is
\* backoffMs * 2^(k-1), one per failed attempt that is retried and none after a
\* success or after the final failure; rate-limit failures on attempts 1 and 2
\* and a success on attempt 3 under maxAttempts = 3 return the value after the
\* delays backoffMs and 2 * backoffMs
C12_BackoffDelays ==
  retry.fn \in RetryFunctions =>
    /\ \A k \in DOMAIN retry.delays : retry.delays[k] = retry.backoffMs * 2^(k - 1)
    /\ Len(retry.delays) = IF retry.pc = "thrown" /\ retry.outcome = "failed"
                             THEN Len(retry.kinds) - 1
                             ELSE Len(retry.kinds)
    /\ (retry.maxAttempts = 3 /\ retry.kinds = <<"rate_limit", "rate_limit">>
          /\ retry.outcome = "ok")
         => /\ retry.pc = "returned"
            /\ retry.result \in OperationValues
            /\ retry.delays = <<retry.backoffMs, 2 * retry.backoffMs>>

C12_Witness ==
  /\ retry.fn = "withRetry"
  /\ retry.maxAttempts = 3
  /\ retry.kinds = <<"rate_limit", "rate_limit">>
  /\ retry.pc = "returned"

\* C13: after a failure withRetryForErrorTypes goes on to a further attempt
\* exactly when the classified kind is in the caller's allow-list and the
\* attempt number is below maxAttempts; otherwise the failure is propagated,
\* also when the classifier marks it retryable
C13_AllowList ==
  (retry.fn = "withRetryForErrorTypes" /\ FailedAttempt) =>
    IF LastKind \in retry.retriableTypes /\ retry.attempt < retry.maxAttempts
      THEN retry.pc = "sleep"
      ELSE retry.pc = "thrown" /\ retry.calls = retry.attempt

C13_Witness ==
  /\ retry.fn = "withRetryForErrorTypes"
  /\ FailedAttempt
  /\ ClassifyError(retry.lastError).retriable
  /\ LastKind \notin retry.retriableTypes
  /\ retry.attempt < retry.maxAttempts
  /\ retry.pc = "thrown"

\* C14: once an attempt has failed with kind validation or fatal, the
\* operation is not called again, on any of the three retry paths
C14_ValidationFatalNeverRetried ==
  [][(retry.outcome = "failed" /\ LastKind \in {"validation", "fatal"})
       => retry'.calls = retry.calls]_vars

(***************************************************************************)
(* Claims about the DualBudgetManager (SpecBudget)                         *)
(***************************************************************************)
\* this step is a call of checkBudgetLimit that returned a result
CheckReturned ==
  /\ budgetOp'.seq # budgetOp.seq
  /\ budgetOp'.name = "checkBudgetLimit"
  /\ budgetOp'.result # Threw

\* this step is a call of checkBudgetLimit, returning or throwing
CheckCalled == budgetOp'.seq # budgetOp.seq /\ budgetOp'.name = "checkBudgetLimit"

\* this step is a call of addUsage
SettleCalled == budgetOp'.seq # budgetOp.seq /\ budgetOp'.name = "addUsage"

\* the wall time a check projects for ledger b at time clock: completed work
\* plus the time since the session start plus the estimate
ProjectedWallTime(b, e, clock) ==
  b.usage.wallTimeSec
    + (IF b.usage.startTime = NoStartTime THEN 0 ELSE clock - b.usage.startTime)
    + e.estimatedWallTime

\* some projected usage rate of ledger b with estimate e is at least percent / 100
ProjectedRateAtLeast(b, e, clock, percent) ==
  LET cap == b.tiers[b.current]
  IN \/ 100 * (b.usage.tokens + e.tokens) >= percent * cap.tokens
     \/ 100 * (b.usage.costUSD + e.estimatedCost) >= percent * cap.monthly
     \/ 100 * ProjectedWallTime(b, e, clock) >= percent * cap.wallTimeSec

UsageOf(b) == <<b.usage.tokens, b.usage.costUSD, b.usage.wallTimeSec>>

\* the usage on record before a call: this.budget when loaded, else the file,
\* else the zero usage of a first setup
UsageOnRecord ==
  IF budget # NoBudget THEN UsageOf(budget)
  ELSE IF budgetFile # NoFile THEN UsageOf(budgetFile)
  ELSE <<0, 0, 0>>

\* C15: checkBudgetLimit returns allowed = false exactly when the active set
\* has reached limits.maxConcurrency, or the estimate's wall time exceeds
\* limits.maxWallTimePerRequest, or the largest projected usage rate is at
\* least alerts.stopAt; otherwise it returns allowed = true
C15_AdmissionDecision ==
  [][CheckReturned =>
       LET b == budget'
           e == budgetOp'.arg
           denied == \/ Cardinality(activeRequests) >= b.limits.maxConcurrency
                     \/ e.estimatedWallTime > b.limits.maxWallTimePerRequest
                     \/ ProjectedRateAtLeast(b, e, now, b.alerts.stopAt)
       IN budgetOp'.result.allowed = ~denied]_vars

C15_Witness ==
  /\ budgetOp.name = "checkBudgetLimit"
  /\ budgetOp.result # Threw
  /\ ~budgetOp.result.allowed
  /\ budgetOp.result.reason = "budget"
  /\ Cardinality(activeRequests) = 1

\* the setting of the budget boundary: token cap 1000, stopAt 0.95, warningAt
\* 0.8, 960 tokens used, the cost and wall-time rates below warningAt, neither
\* the concurrency limit nor the per-request limit reached
BudgetBoundary(b, e) ==
  /\ b.tiers[b.current].tokens = 1000
  /\ b.alerts.stopAt = 95
  /\ b.alerts.warningAt = 80
  /\ b.usage.tokens = 960
  /\ 100 * (b.usage.costUSD + e.estimatedCost) < 80 * b.tiers[b.current].monthly
  /\ 100 * ProjectedWallTime(b, e, now) < 80 * b.tiers[b.current].wallTimeSec
  /\ Cardinality(activeRequests) < b.limits.maxConcurrency
  /\ e.estimatedWallTime <= b.limits.maxWallTimePerRequest

\* C16 as claimed: at the budget boundary an estimate of 100 tokens is denied,
\* and an estimate of 10 tokens is allowed together with a warning
C16_BudgetBoundaryAsClaimed ==
  [][(CheckReturned /\ BudgetBoundary(budget', budgetOp'.arg)) =>
       /\ budgetOp'.arg.tokens = 100 => ~budgetOp'.result.allowed
       /\ budgetOp'.arg.tokens = 10 => (budgetOp'.result.allowed /\ budgetOp'.result.warned)]_vars

\* C16 amended: at the budget boundary an estimate of 100 tokens is denied and
\* an estimate of 10 tokens is denied too (970 / 1000 >= 0.95); with 800 tokens
\* used instead of 960, an estimate of 10 tokens (810 / 1000) is allowed
\* together with a warning
C16_BudgetBoundary ==
  [][CheckReturned =>
       LET b == budget'
           e == budgetOp'.arg
       IN /\ BudgetBoundary(b, e) =>
               (e.tokens \in {10, 100} => ~budgetOp'.result.allowed)
          /\ BudgetBoundary([b EXCEPT !.usage.tokens = 960], e) /\ b.usage.tokens = 800
               => (e.tokens = 10 => (budgetOp'.result.allowed /\ budgetOp'.result.warned))]_vars

C16_Witness ==
  /\ budgetOp.name = "checkBudgetLimit"
  /\ budgetOp.result # Threw
  /\ budget.usage.tokens = 960
  /\ budgetOp.arg = CostEstimate(10, 0, 30)
  /\ ~budgetOp.result.allowed
  /\ budgetOp.result.reason = "budget"

C18_SettleEffect ==
  [][(SettleCalled /\ budget # NoBudget) =>
       LET actual == budgetOp'.arg
           id == budgetOp'.requestId
       IN /\ UsageOf(budget') = <<budget.usage.tokens + actual.tokens,
                                  budget.usage.costUSD + actual.cost,
                                  budget.usage.wallTimeSec + actual.wallTime>>
          /\ activeRequests' = activeRequests \ {id}
          /\ id \in activeRequests => Cardinality(activeRequests') = Cardinality(activeRequests) - 1
          /\ budgetFile' = budget'
          /\ [budget' EXCEPT !.usage = budget.usage] = budget]_vars

C18_Witness ==
  /\ budgetOp.name = "addUsage"
  /\ budgetOp.requestId = "r1"
  /\ budget # NoBudget
  /\ budget.usage.tokens = 960
  /\ activeRequests = {"r2"}
  /\ budgetFile = budget

\* a call of the CacheManager is made in this step
CacheCalled(name) == cacheOp'.seq # cacheOp.seq /\ cacheOp'.name = name

Expired(files, key, clock) ==
  key \in DOMAIN files /\ clock - files[key].timestamp > files[key].ttl

\* C20: get(key) never returns the payload of an entry whose age exceeds its
\* ttl: it returns a miss and deletes the entry, and the key stays without
\* an entry until the next set of it; an entry within its ttl that is still
\* there is returned as the payload that set was given, and stays.
C20_GetHonoursTtl ==
  [][/\ CacheCalled("get") =>
          LET key == cacheOp'.key
          IN IF key \notin DOMAIN cacheFiles
               THEN cacheOp'.result = Null /\ cacheFiles' = cacheFiles
               ELSE IF Expired(cacheFiles, key, now)
                 THEN /\ cacheOp'.result = Null
                      /\ cacheFiles' = RemoveFile(cacheFiles, key)
                 ELSE /\ cacheOp'.result = EntryData(cacheFiles[key])
                      /\ cacheFiles' = cacheFiles
     /\ CacheCalled("set") =>
          /\ cacheOp'.key \in DOMAIN cacheFiles'
          /\ EntryData(cacheFiles'[cacheOp'.key]) = cacheOp'.data
          /\ cacheFiles'[cacheOp'.key].timestamp = now
     /\ \A key \in DOMAIN cacheFiles' :
          \/ key \in DOMAIN cacheFiles /\ cacheFiles'[key] = cacheFiles[key]
          \/ CacheCalled("set") /\ cacheOp'.key = key
    ]_vars

\* an entry past its ttl was read by get, which answered a miss and deleted
\* it, while an entry within its ttl is still in the cache
C20_Witness ==
  /\ cacheOp.name = "get"
  /\ cacheOp.found
  /\ cacheOp.result = Null
  /\ cacheOp.key \notin DOMAIN cacheFiles
  /\ \E key \in DOMAIN cacheFiles :
       /\ now > cacheFiles[key].timestamp
       /\ EntryData(cacheFiles[key]) = Out("A")

\* the loop of executePipeline takes the pass of its current stage
StagePass ==
  /\ pipelineRun.pc = "stage"
  /\ pipelineRun.i <= Len(pipelineRun.agents)
  /\ pipelineRun' # pipelineRun

\* the current stage's step was executed on the current input before, and the
\* result then stored is within its ttl
StoredFresh ==
  /\ pipelineRun.i <= Len(pipelineRun.agents)
  /\ <<pipelineRun.agents[pipelineRun.i], pipelineRun.currentInput>> \in DOMAIN stored
  /\ now - stored[<<pipelineRun.agents[pipelineRun.i], pipelineRun.currentInput>>].at
       <= DaySeconds

\* C19: with useCache, a stage reached with an input on which its step was
\* executed and stored before, within the ttl, takes the stored value as its
\* result and does not call the step's run(), whatever the value is.
C19_CacheIdempotence ==
  [][(StagePass /\ pipelineRun.useCache /\ StoredFresh) =>
       /\ pipelineRun'.calls = pipelineRun.calls
       /\ pipelineRun'.i = pipelineRun.i + 1
       /\ pipelineRun'.currentInput =
            stored[<<pipelineRun.agents[pipelineRun.i], pipelineRun.currentInput>>].value
    ]_vars

\* the steps executePipeline ran to completion: those before the stage that failed
StagesCompleted ==
  {pipelineConfig.agents[i].name : i \in 1..(Len(pipelineConfig.agents) - Len(stages))}

\* the record that the result is to hold for step n after an abort
SpecifiedRecord(n) ==
  IF n \in failedAgents THEN StepRecord(n, "failed", error)
  ELSE IF n \in StagesCompleted THEN StepRecord(n, "success", "")
  ELSE StepRecord(n, "skipped", "")

\* C21: after a run that aborted on a step's failure, results holds one
\* record per step of the pipeline: failed with the error for the failing
\* step, success for the steps that completed, skipped for those that never ran.
C21_RecordPerStep ==
  (entry = "executePipeline" /\ pc = "done" /\ error = "step-failed") =>
    /\ Len(results) = Len(pipelineConfig.agents)
    /\ \A i \in DOMAIN results : results[i] = SpecifiedRecord(pipelineConfig.agents[i].name)

\* an execution attempt of step n starts in this step
AttemptStarts(n) == runs'[n] > runs[n]

\* the moves of the state machine of a step
StepMoves ==
  {<<"Pending", "Pending">>, <<"Pending", "Ready">>, <<"Pending", "Running">>,
   <<"Pending", "Skipped">>, <<"Ready", "Ready">>, <<"Ready", "Running">>,
   <<"Running", "Running">>, <<"Running", "Completed">>, <<"Running", "Failed">>,
   <<"Completed", "Completed">>, <<"Failed", "Failed">>, <<"Skipped", "Skipped">>}

\* C22: in a run of execute every step follows Pending -> Ready -> Running ->
\* Completed or Failed; an attempt of a step starts only when each of its
\* dependencies is in completed with a recorded result; a step that is
\* Completed or Failed is not executed again; a step is added to completed
\* once, out of Running.
C22_StepStateMachine ==
  [][entry = "execute" =>
       \A n \in AllNames :
         /\ <<StepState(n), StepState(n)'>> \in StepMoves
         /\ AttemptStarts(n) =>
              /\ Deps(AgentNamed(n)) \subseteq completed \cap DOMAIN agentResults
              /\ StepState(n) \notin {"Completed", "Failed"}
         /\ n \in completed' \ completed => StepState(n) = "Running"
         /\ n \in completed => n \in completed'
    ]_vars

\* a run ended in success in which a step with a dependency ran once, after
\* the step it depends on
C22_Witness ==
  /\ entry = "execute"
  /\ status = "success"
  /\ \E n \in AllNames :
       /\ Deps(AgentNamed(n)) # {}
       /\ Deps(AgentNamed(n)) \subseteq completed \cap DOMAIN agentResults
       /\ n \in completed
       /\ runs[n] = 1

\* the serial steps; a run that ended on the failure of one of them
SerialNames == {a.name : a \in {b \in AgentSet : ~b.parallel}}
SerialStepFailed == entry = "execute" /\ failedAgents \cap SerialNames # {}

\* C23: when the execution of a serial step fails, execute rejects at once,
\* the step is not added to completed, and from then on no step starts
\* executing: nothing is running and no agent.run is called any more.
C23_SerialFailureAborts ==
  [][/\ (entry = "execute" /\ pc = "serialRun" /\ status' = "failed") =>
          /\ pc' = "done"
          /\ failedAgents' = failedAgents \cup {Head(serialAgents).name}
          /\ completed' = completed
          /\ ~returned'.has
     /\ SerialStepFailed =>
          /\ status = "failed" /\ pc = "done"
          /\ failedAgents \cap completed = {}
          /\ Holders \cup Waiting = {}
          /\ runs' = runs /\ completed' = completed /\ agentResults' = agentResults
    ]_vars

\* a serial step failed after another step had completed, with a parallel
\* group of its round still to come
C23_Witness ==
  /\ SerialStepFailed
  /\ completed # {}
  /\ parallelAgents # <<>>
  /\ \E n \in AllNames : runs[n] = 0

\* the steps whose agent.run is in progress or between two attempts
Executing ==
  Holders \cup (IF pc = "serialRun" THEN {Head(serialAgents).name} ELSE {})

\* position of a step in the declaration order of the pipeline
DeclPos(n) == CHOOSE i \in DOMAIN pipelineConfig.agents : pipelineConfig.agents[i].name = n

\* the serial and the parallel steps of the ready set of the current round
ReadySerial == {readyAgents[i].name : i \in {j \in DOMAIN readyAgents : ~readyAgents[j].parallel}}
ReadyParallel == {readyAgents[i].name : i \in {j \in DOMAIN readyAgents : readyAgents[j].parallel}}

\* C24: within a round the serial-ready steps execute one at a time in
\* declaration order, each to completion before the next starts; no
\* parallel-ready step starts before every serial-ready step of the round
\* has completed; the groups run one after another, so the steps executing
\* at one time are one serial step or members of one group.
C24_RoundOrder ==
  /\ [][entry = "execute" =>
          \A n \in AllNames : AttemptStarts(n) =>
            /\ n \in ReadySerial \cup ReadyParallel
            /\ n \in ReadySerial =>
                 /\ Executing = {}
                 /\ Executing' = {n}
                 /\ \A m \in ReadySerial :
                      (m \in completed) = (DeclPos(m) < DeclPos(n))
            /\ n \in ReadyParallel => ReadySerial \subseteq completed
       ]_vars
  /\ [](entry = "execute" =>
          /\ \A m, n \in Executing :
               /\ AgentNamed(m).parallel = AgentNamed(n).parallel
               /\ GroupOf(AgentNamed(m)) = GroupOf(AgentNamed(n))
          /\ \A n \in Executing : ~AgentNamed(n).parallel => Executing = {n})

\* a round with a serial step and two groups: the serial step has completed,
\* the member of the first group is done and that of the second is running
C24_Witness ==
  /\ entry = "execute"
  /\ ReadySerial # {}
  /\ ReadySerial \subseteq completed
  /\ \E m, n \in ReadyParallel :
       /\ GroupOf(AgentNamed(m)) # GroupOf(AgentNamed(n))
       /\ member[m] = "done"
       /\ member[n] = "running"

\* C25: the ready set of the next round is computed only when no member of
\* a group is executing or waiting for a permit; the steps that execute or
\* wait, and the step that starts, are of the ready set of the current
\* round; after an abort no further ready set is computed.
C25_GroupDrainedBeforeNextRound ==
  [][entry = "execute" =>
       /\ readyAgents' # readyAgents =>
            /\ pc = "loop" /\ status = "running"
            /\ Holders \cup Waiting = {}
            /\ \A i \in DOMAIN readyAgents : readyAgents[i].name \in completed
       /\ Holders \cup Waiting \subseteq ReadyParallel
       /\ \A n \in AllNames : AttemptStarts(n) => n \in ReadySerial \cup ReadyParallel
    ]_vars

\* a step of a second round has started after the two members of a group of
\* the first round had both finished
C25_Witness ==
  /\ entry = "execute"
  /\ Cardinality({m \in AllNames : member[m] = "done"}) = 2
  /\ \E n \in AllNames :
       /\ AgentNamed(n).depsDefined
       /\ Deps(AgentNamed(n)) # {}
       /\ runs[n] > 0

\* a member of the group in progress has failed with no attempt left
MemberExhausted == \E n \in GroupNames : member[n] = "failed"

\* C26: once a member of a group has exhausted its retries, execute can only
\* reject, and the rejected run returns no results; a sibling that had
\* started keeps its place until its own agent.run settles, and then
\* completes, waits for its retry or fails as it would have otherwise.
C26_SiblingsNotCancelled ==
  [][(entry = "execute" /\ MemberExhausted) =>
       /\ pc \in {"awaitGroup", "done"}
       /\ pc = "done" => status = "failed"
       /\ pc' # pc => status' = "failed"
       /\ ~returned'.has
       /\ \A m \in Holders :
            \/ member'[m] = member[m]
            \/ member[m] = "delay" /\ member'[m] = "running" /\ runs'[m] = runs[m] + 1
            \/ member[m] = "running" /\ member'[m] = "done" /\ m \in completed'
            \/ member[m] = "running" /\ member'[m] = "delay" /\ attempt'[m] <= maxRetry
            \/ member[m] = "running" /\ member'[m] = "failed" /\ attempt'[m] > maxRetry
    ]_vars

\* the run has failed, and a sibling that was running when the member failed
\* has completed since: its output is in execute's agentResults, which the
\* rejected run does not return
C26_Witness ==
  /\ entry = "execute"
  /\ status = "failed"
  /\ ~returned.has
  /\ \E m \in GroupNames :
       /\ member[m] = "done"
       /\ m \notin doneAtFailure
       /\ m \in DOMAIN agentResults

\* the retry loop of a group member is the activation
GroupMember == retry.fn = "groupMember"

\* C27: a member of a group with retryCount R is attempted at most R + 1
\* times; before every retry the group's retryDelay is waited, the same
\* each time; no delay follows the last failed attempt; and the member
\* throws only after attempt R + 1 has failed.
C27_GroupRetry ==
  GroupMember =>
    /\ retry.calls <= retry.maxRetry + 1
    /\ \A i \in DOMAIN retry.delays : retry.delays[i] = retry.retryDelay
    /\ Len(retry.delays) <= retry.maxRetry
    /\ retry.pc = "sleep" => Len(retry.delays) = retry.calls /\ retry.calls <= retry.maxRetry
    /\ retry.pc \in {"loop", "running"} /\ retry.calls > 0 =>
         Len(retry.delays) = retry.attempt
    /\ retry.pc = "thrown" =>
         /\ retry.calls = retry.maxRetry + 1
         /\ Len(retry.kinds) = retry.maxRetry + 1
         /\ Len(retry.delays) = retry.maxRetry

\* a member with retryCount 2 has thrown after three failed attempts and
\* two waits
C27_Witness ==
  /\ GroupMember
  /\ retry.pc = "thrown"
  /\ retry.maxRetry = 2
  /\ retry.calls = 3
  /\ retry.delays = <<retry.retryDelay, retry.retryDelay>>

\* the positions of the calls named in ops in the log of the unit of work
LogPositions(ops) == {i \in DOMAIN stepRun.log : stepRun.log[i] \in ops}
AdmissionOps == {"admission:allowed", "admission:denied"}
CacheHit == \E i \in DOMAIN stepRun.log :
              /\ stepRun.log[i] = "cache.get"
              /\ i < Len(stepRun.log)
              /\ stepRun.log[i + 1] = "record"

\* C28: for every unit of work an executor has finished, the cache was
\* consulted first, then came the admission check, then the execution, then
\* the recording of the result and the debit; on a cache hit there was
\* neither an admission check nor an execution.
C28_OperationOrder ==
  stepRun.pc = "done" =>
    /\ stepRun.log # <<>>
    /\ stepRun.log[1] = "cache.get"
    /\ CacheHit => LogPositions(AdmissionOps \cup {"llm", "debit"}) = {}
    /\ ~CacheHit =>
         /\ LogPositions(AdmissionOps) # {}
         /\ LogPositions({"debit"}) # {}
         /\ \A a \in LogPositions(AdmissionOps), x \in LogPositions({"llm"}) :
              x > a => \A r \in LogPositions({"record", "debit"}) : x < r

\* C29: when the admission check of a step answered allowed = false, the
\* LLM request is not made and no usage is debited for the step.
C29_DeniedMeansNoCall ==
  \A i \in LogPositions({"admission:denied"}) :
    \A j \in LogPositions({"llm", "debit"}) : j < i

\* C30: once the agent has raised its budget-limit error after a denied
\* check, the step has failed for good: no delay is waited and agent.run is
\* not called again, whatever the retry budget of the executor.
C30_BudgetDenialNotRetried ==
  LogPositions({"throw:budget"}) # {} =>
    /\ stepRun.pc = "failed"
    /\ stepRun.attempts = 1

(***************************************************************************)
(* Claims about the DualBudgetManager under concurrent callers (SpecLedger)*)
(***************************************************************************)
\* no call is suspended: every request is before its check, admitted, denied
\* or settled
LedgerQuiet ==
  \A r \in RequestIds : budgetCalls[r].pc \in {"idle", "admitted", "denied", "settled"}

RECURSIVE SumOfActuals(_, _)
SumOfActuals(calls, rs) ==
  IF rs = {} THEN <<0, 0, 0>>
  ELSE LET r == CHOOSE x \in rs : TRUE
           rest == SumOfActuals(calls, rs \ {r})
       IN <<rest[1] + calls[r].actual.tokens, rest[2] + calls[r].actual.cost,
            rest[3] + calls[r].actual.wallTime>>

\* the initial usage (zero in every ledger of InitLedger) plus the actual
\* amounts of every addUsage call made
SettledUsage == SumOfActuals(budgetCalls, SettleCalls(budgetCalls))

\* C31: under every interleaving of concurrent checkBudgetLimit and addUsage
\* calls on one DualBudgetManager no settle is lost: once all calls have
\* finished, the usage of this.budget and the usage in the budget file both
\* equal the initial usage plus the sum of the settled amounts, and the
\* active set holds exactly the admitted requests not yet settled
C31_NoSettleLost ==
  (entry = "ledger" /\ LedgerQuiet /\ budget # NoBudget) =>
     /\ UsageOf(budget) = SettledUsage
     /\ UsageOf(budgetFile) = SettledUsage
     /\ activeRequests = {r \in RequestIds : budgetCalls[r].pc = "admitted"}

\* the usage rate of ledger b, with nothing added, is at least percent / 100
RecordedRateAtLeast(b, percent) ==
  LET cap == b.tiers[b.current]
  IN \/ 100 * b.usage.tokens >= percent * cap.tokens
     \/ 100 * b.usage.costUSD >= percent * cap.monthly
     \/ 100 * b.usage.wallTimeSec >= percent * cap.wallTimeSec

\* this step is the decision of request r's check
DecidedStep(r) == budgetCalls[r].pc = "decide" /\ budgetCalls'[r].pc # "decide"

\* C32: admission is optimistic.  At admission nothing but the size of the
\* active set bounds the number of requests admitted together: a check whose
\* estimate is within the per-request limit and whose projected rates (the
\* usage on record plus its own estimate, the estimates of the requests in
\* the active set not counted) are below stopAt is denied exactly when the
\* active set has reached limits.maxConcurrency, so that the active set never
\* exceeds it; and (the witness) k = 2 requests are admitted before either
\* settles, each below stopAt, and leave the recorded rate at or above stopAt
\* once both have settled
C32_OptimisticAdmission ==
  /\ [][\A r \in RequestIds :
          (/\ DecidedStep(r)
           /\ budgetCalls[r].estimate.estimatedWallTime <= budget.limits.maxWallTimePerRequest
           /\ ~ProjectedRateAtLeast(budget, budgetCalls[r].estimate, now, budget.alerts.stopAt))
          => (budgetCalls'[r].result.allowed
                <=> Cardinality(activeRequests) < budget.limits.maxConcurrency)]_vars
  /\ [](budget # NoBudget => Cardinality(activeRequests) <= budget.limits.maxConcurrency)

C32_Witness ==
  /\ entry = "ledger"
  /\ \A r \in RequestIds :
       /\ budgetCalls[r].pc = "settled"
       /\ budgetCalls[r].result.allowed
       /\ budgetCalls[r].settlesBefore = 0
  /\ Cardinality(RequestIds) <= budget.limits.maxConcurrency
  /\ RecordedRateAtLeast(budget, budget.alerts.stopAt)
  /\ RecordedRateAtLeast(budgetFile, budgetFile.alerts.stopAt)

(***************************************************************************)
(* Claims about the classifiers (SpecClassify)                             *)
(***************************************************************************)
\* the thrown value carries a timeout or a network marker: the name
\* TimeoutError, status 408 or error.type timeout, a network or timeout code,
\* or such a word in its message
TimeoutOrNetworkMarker(c) ==
  \/ c.err.name = "TimeoutError"
  \/ c.err.status = 408
  \/ c.err.apiType = "timeout"
  \/ c.err.code \in NetworkCodes \cup {"ETIMEDOUT"}
  \/ c.words \cap {"timeout", "connection"} # {}

\* C33: every failure gets exactly one kind and the retryable flag depends on
\* the kind only: network, rate-limit and timeout are retryable, validation,
\* fatal and unknown are not; a failure with a timeout or network marker is
\* never put under a non-retryable kind, and a failure marked fatal is never
\* classified retryable
C33_RetryableByKind ==
  classified.pc = "classified" =>
    /\ classified.motiva.type \in {"network", "rate_limit", "timeout"}
         => classified.motiva.retriable
    /\ classified.motiva.type \in {"validation", "fatal", "unknown"}
         => ~classified.motiva.retriable
    /\ classified.info.type \in {"network", "api_limit", "timeout"}
         => classified.info.retryable
    /\ classified.info.type \in {"validation", "unknown"} => ~classified.info.retryable
    /\ TimeoutOrNetworkMarker(classified)
         => (classified.motiva.retriable /\ classified.info.retryable)
    /\ classified.err.fatal => ~classified.motiva.retriable

\* the stage of this step took the answer of the cache as its result
CacheAnswerTaken ==
  /\ StagePass
  /\ pipelineRun.useCache
  /\ pipelineRun'.pc = "stage"
  /\ pipelineRun'.i = pipelineRun.i + 1

\* C34: the cache key of executePipeline identifies the pair (step, input):
\* a stage that takes the answer of the cache as its result receives the
\* value stored by an execution of the same step on the same input, never a
\* value cached for another step or for another input of the same step,
\* inputs that differ only after the first 100 characters of their JSON text
\* included
C34_KeyIdentifiesStepAndInput ==
  [][CacheAnswerTaken =>
       LET name == pipelineRun.agents[pipelineRun.i]
           input == pipelineRun.currentInput
       IN /\ <<name, input>> \in DOMAIN stored
          /\ pipelineRun'.currentInput = stored[<<name, input>>].value
          /\ \A other \in DOMAIN stored :
               CacheKey(other[1], other[2]) = CacheKey(name, input) => other = <<name, input>>
    ]_vars

(***************************************************************************)
(* Claims about CacheManager.enforceSizeLimit (SpecCacheSize)              *)
(***************************************************************************)
\* this step is a call of enforceSizeLimit
EnforceCalled == cacheOp'.seq # cacheOp.seq /\ cacheOp'.name = "enforceSizeLimit"

\* the unexpired entries that the call deleted
EvictedEntries == ValidEntries(cacheFiles, now) \ DOMAIN cacheFiles'

\* C35: enforceSizeLimit deletes nothing when the total size of the unexpired
\* entries is within the limit; otherwise it deletes oldest first and stops as
\* soon as the total is within the limit: afterwards the total is within the
\* limit, every deleted unexpired entry is at least as old as every retained
\* one, and without the newest of the deleted entries the total was still
\* over the limit
C35_EvictsOldestUntilWithinLimit ==
  [][EnforceCalled =>
       /\ SizeOfFiles(cacheFiles, ValidEntries(cacheFiles, now)) <= maxSize
            => EvictedEntries = {}
       /\ SizeOfFiles(cacheFiles', DOMAIN cacheFiles') <= maxSize
       /\ \A gone \in EvictedEntries, kept \in DOMAIN cacheFiles' :
            cacheFiles[gone].timestamp <= cacheFiles[kept].timestamp
       /\ EvictedEntries # {} =>
            \E gone \in EvictedEntries :
              /\ \A other \in EvictedEntries :
                   cacheFiles[other].timestamp <= cacheFiles[gone].timestamp
              /\ SizeOfFiles(cacheFiles, DOMAIN cacheFiles' \cup {gone}) > maxSize
    ]_vars


\* the members of the launched group that hold a permit of its Semaphore
GroupHolders == Holders \cap GroupNames

\* C36: a Semaphore created with N >= 0 permits, released only by holders and
\* once per granted acquire: the counter is in 0..N, the counter plus the
\* number of holders is N, and the wait queue is non-empty only when the
\* counter is 0; so with no holder and no waiter left the counter is N again.
C36_PermitsConserved ==
  (groupAgents # <<>> /\ groupConcurrency >= 0) =>
    /\ semaphore.permits \in 0..groupConcurrency
    /\ semaphore.permits + Cardinality(GroupHolders) = groupConcurrency
    /\ (semaphore.waitQueue # <<>> => semaphore.permits = 0)
    /\ ((GroupHolders = {} /\ semaphore.waitQueue = <<>>) =>
          semaphore.permits = groupConcurrency)

\* a group of three over one permit: a member failed, the two waiters were
\* resumed in turn, and every permit is back
C36_Witness ==
  /\ Len(groupAgents) = 3
  /\ groupConcurrency = 1
  /\ failedAgents \cap GroupNames # {}
  /\ GroupHolders = {}
  /\ semaphore = NewSemaphore(1)
  /\ \A n \in GroupNames : runs[n] > 0


\* C37: every member of a launched group eventually acquires a permit and the
\* wait for the group eventually ends, for every maxConcurrency the schema
\* accepts, when every attempt of a step terminates.
C37_EveryMemberAcquires ==
  /\ \A n \in AllNames : (member[n] = "waiting") ~> (member[n] # "waiting")
  /\ (pc = "awaitGroup") ~> (pc # "awaitGroup")


\* execute's promise has rejected because a step failed
ExecuteFailed == entry = "execute" /\ status = "failed" /\ error = "step-failed"

\* C38: once execute has failed, no step of the run begins a new attempt; a
\* member that was queued on the group's Semaphore when a sibling failed for
\* good never starts running and never writes to agentResults or completed.
C38_NoAttemptAfterFailure ==
  [][/\ ExecuteFailed =>
          /\ runs' = runs
          /\ agentResults' = agentResults
          /\ completed' = completed
     /\ \A n \in Waiting :
          (\E m \in GroupNames : member'[m] = "failed") => member'[n] = "waiting"
    ]_vars


\* C39: in executeParallel and executeIndependentParallel the agent run()
\* calls that have started and not finished never exceed the orchestrator's
\* maxConcurrency, also when a timer fires while the run is in progress.
C39_RunsWithinMaxConcurrency ==
  parallelRun.tag = "run" =>
    Cardinality(parallelRun.inFlight) <= parallelRun.maxConcurrency


\* the runs that schedule() has started and whose fn has not settled
InFlightJobs == {id \in JobIds : scheduler.job[id] \in {"running", "publishing"}}
QueuedJobs == {id \in JobIds : scheduler.job[id] = "queued"}

\* C40: with maxConcurrency M at most M runs are in flight; a run that
\* arrives while M are in flight is queued; queued runs start in FIFO order;
\* every queued run is eventually started, whether the runs in flight succeed
\* or fail, and running is 0 again when no work remains.
C40_QueuedRunsStart ==
  /\ [](scheduler.tag = "execute" =>
          /\ Cardinality(InFlightJobs) <= scheduler.maxConc
          /\ scheduler.running = Cardinality(InFlightJobs)
          /\ (QueuedJobs # {} => Cardinality(InFlightJobs) = scheduler.maxConc)
          /\ \A i, j \in DOMAIN scheduler.queue : i < j => scheduler.queue[i] < scheduler.queue[j])
  /\ [][\A id \in JobIds :
          (scheduler.job[id] = "queued" /\ scheduler'.job[id] = "running") =>
            id = Head(scheduler.queue)]_vars
  /\ \A id \in JobIds : (scheduler.job[id] = "queued") ~> (scheduler.job[id] # "queued")

====
